---------------------------- MODULE Spec2Model ----------------------------
(***************************************************************************)
(* claudectx: profile store and account-field reconciliation.              *)
(*                                                                         *)
(* The model follows src/src/profiles.rs.  The filesystem under the home   *)
(* directory is the state: ~/.claude.json (absent, a regular file or a     *)
(* symlink into ~/.claudectx/), ~/.claude.json.bak and the entries of      *)
(* ~/.claudectx/.  Every function of profiles.rs is an operator from a     *)
(* filesystem to a result record (the filesystem it leaves, whether it     *)
(* returned or panicked, what it printed); every action applies one of     *)
(* them to the current filesystem.                                         *)
(*                                                                         *)
(* Not modelled: I/O errors other than "no such file" (permissions, full   *)
(* disk), and the order of keys inside a JSON object.                      *)
(***************************************************************************)
EXTENDS Integers, Sequences, FiniteSets, TLC

VARIABLES
    claudeJson,   \* ~/.claude.json: [kind, content, target]
    claudeBak,    \* ~/.claude.json.bak: [exists, content]
    dirExists,    \* whether ~/.claudectx/ exists
    dir,          \* entries of ~/.claudectx/: file name -> content
    log,          \* the calls made so far: <<[op, name, entries, ok, msg,
                  \* slug, notice, ret], ...>>
    fs0,          \* the filesystem before the first call
    pre,          \* the filesystem before the last call
    pc,           \* "idle", or "login_offer" while a login workflow that
                  \* restored the config waits for the answer to its prompt,
                  \* or the statement a run of migrate_if_needed is at
    mig,          \* the locals of that run and what became of the runs
                  \* before it: [content, entries, i, runs, aborted, left,
                  \* later]
    switches,     \* the invocations of switch_to_profile that run side by
                  \* side: <<[at, name, profile, config], ...>>, at being
                  \* the statement the invocation is at
    argConfig,    \* first argument of the pure function under test
    argProfile,   \* second argument of the pure function under test
    retVal,       \* what the pure function left / returned
    retAgain,     \* what it left when applied again to what it had left
    called        \* which pure function was applied ("none" before)

fsVars   == <<claudeJson, claudeBak, dirExists, dir, log, fs0, pre, pc, mig,
             switches>>
pureVars == <<argConfig, argProfile, retVal, retAgain, called>>
vars     == <<claudeJson, claudeBak, dirExists, dir, log, fs0, pre, pc, mig,
              switches,
              argConfig, argProfile, retVal, retAgain, called>>

---------------------------------------------------------------------------
(* Bounds of the model.                                                    *)

\* longest call sequence explored from an initial filesystem
MaxOps == 3
\* longest sequence of commands explored from an initial filesystem
MaxCmds == 2
\* most keys an input document of the pure functions holds
MaxKeys == 2
\* most runs of migrate_if_needed explored statement by statement
MaxRuns == 2
\* longest sequence of profile store calls explored
MaxStoreOps == 2
\* most characters of a name given to slugify
MaxLen == 3
\* longest sequence of operations that write profiles explored
MaxSlimOps == 2
\* invocations of switch_to_profile that run side by side
MaxSwitches == 2

---------------------------------------------------------------------------
(* JSON values.                                                            *)
(* A value under a top-level key is [t, v]: a JSON string v, or an object  *)
(* {"accountUuid": v, ...} (the shape of oauthAccount).  A parsed document *)
(* is [t, m]: t = "object" with the key -> value map m, or another JSON    *)
(* type ("array", "null") with an empty m.                                 *)

Str(s)  == [t |-> "string", v |-> s]
Acct(u) == [t |-> "account", v |-> u]

EmptyMap == [k \in {} |-> Str("")]
Obj(m)   == [t |-> "object", m |-> m]
JArray   == [t |-> "array", m |-> EmptyMap]
JNull    == [t |-> "null", m |-> EmptyMap]

\* serde_json::Value::as_object
IsObject(d) == d.t = "object"

\* serde_json::Map::insert / remove / get
Insert(m, k, v) == [x \in (DOMAIN m) \cup {k} |-> IF x = k THEN v ELSE m[x]]
Remove(m, k)    == [x \in (DOMAIN m) \ {k} |-> m[x]]
Has(m, k)       == k \in DOMAIN m

ACCOUNT_SPECIFIC_FIELDS ==
    << "oauthAccount", "userID", "groveConfigCache",
       "cachedChromeExtensionInstalled", "subscriptionNoticeCount",
       "s1mAccessCache", "recommendedSubscription",
       "hasAvailableSubscription" >>

AccountKeys == {ACCOUNT_SPECIFIC_FIELDS[i] : i \in DOMAIN ACCOUNT_SPECIFIC_FIELDS}

\* keys of ~/.claude.json that are not account-specific (as in tests/e2e.rs)
PortableKeys == {"primaryApiKey", "hasCompletedOnboarding"}
AllKeys == AccountKeys \cup PortableKeys

---------------------------------------------------------------------------
(* extract_account_fields: the loop over ACCOUNT_SPECIFIC_FIELDS.          *)

RECURSIVE ExtractLoop(_, _, _)
ExtractLoop(obj, i, result) ==
    IF i > Len(ACCOUNT_SPECIFIC_FIELDS) THEN result
    ELSE LET field == ACCOUNT_SPECIFIC_FIELDS[i] IN
         ExtractLoop(obj, i + 1,
                     IF Has(obj, field) THEN Insert(result, field, obj[field])
                                        ELSE result)

\* a plausible slip: every key of the document is copied
extract_account_fields_all(config) ==
    IF ~IsObject(config) THEN Obj(EmptyMap) ELSE Obj(config.m)

\* a plausible slip: the last field of the list is never visited
extract_account_fields_short(config) ==
    IF ~IsObject(config) THEN Obj(EmptyMap)
    ELSE Obj(Remove(ExtractLoop(config.m, 1, EmptyMap),
                    ACCOUNT_SPECIFIC_FIELDS[Len(ACCOUNT_SPECIFIC_FIELDS)]))

extract_account_fields(config) ==
    IF ~IsObject(config) THEN Obj(EmptyMap)
    ELSE Obj(ExtractLoop(config.m, 1, EmptyMap))

---------------------------------------------------------------------------
(* patch_account_fields: config is patched in place; the operator returns  *)
(* the value config holds afterwards.                                      *)

RECURSIVE PatchLoop(_, _, _)
PatchLoop(config_obj, profile_obj, i) ==
    IF i > Len(ACCOUNT_SPECIFIC_FIELDS) THEN config_obj
    ELSE LET field == ACCOUNT_SPECIFIC_FIELDS[i] IN
         PatchLoop(IF Has(profile_obj, field)
                     THEN Insert(config_obj, field, profile_obj[field])
                     ELSE Remove(config_obj, field),
                   profile_obj, i + 1)

RECURSIVE PatchLoopKeep(_, _, _)
PatchLoopKeep(config_obj, profile_obj, i) ==
    IF i > Len(ACCOUNT_SPECIFIC_FIELDS) THEN config_obj
    ELSE LET field == ACCOUNT_SPECIFIC_FIELDS[i] IN
         PatchLoopKeep(IF Has(profile_obj, field)
                         THEN Insert(config_obj, field, profile_obj[field])
                         ELSE config_obj,
                       profile_obj, i + 1)

\* a plausible slip: keys the profile lacks are left alone, not removed
patch_account_fields_keep(config, profile) ==
    IF ~(IsObject(config) /\ IsObject(profile)) THEN config
    ELSE Obj(PatchLoopKeep(config.m, profile.m, 1))

\* a plausible slip: the whole profile is merged over the config
patch_account_fields_merge(config, profile) ==
    IF ~(IsObject(config) /\ IsObject(profile)) THEN config
    ELSE Obj([k \in (DOMAIN config.m \ AccountKeys) \cup DOMAIN profile.m |->
                IF k \in DOMAIN profile.m THEN profile.m[k] ELSE config.m[k]])

\* a plausible slip: the key is removed first, and the profile's value is
\* put in only when there was nothing to remove
RECURSIVE PatchLoopToggle(_, _, _)
PatchLoopToggle(config_obj, profile_obj, i) ==
    IF i > Len(ACCOUNT_SPECIFIC_FIELDS) THEN config_obj
    ELSE LET field == ACCOUNT_SPECIFIC_FIELDS[i] IN
         PatchLoopToggle(IF Has(config_obj, field)
                           THEN Remove(config_obj, field)
                         ELSE IF Has(profile_obj, field)
                           THEN Insert(config_obj, field, profile_obj[field])
                         ELSE config_obj,
                         profile_obj, i + 1)

patch_account_fields_toggle(config, profile) ==
    IF ~(IsObject(config) /\ IsObject(profile)) THEN config
    ELSE Obj(PatchLoopToggle(config.m, profile.m, 1))

\* a plausible slip: a profile that is not an object counts as an empty one
patch_account_fields_null_clears(config, profile) ==
    IF ~IsObject(config) THEN config
    ELSE Obj(PatchLoop(config.m,
                       IF IsObject(profile) THEN profile.m ELSE EmptyMap, 1))

patch_account_fields(config, profile) ==
    IF ~(IsObject(config) /\ IsObject(profile)) THEN config
    ELSE Obj(PatchLoop(config.m, profile.m, 1))

---------------------------------------------------------------------------
(* slugify.  A name is a sequence of characters.                           *)

LowerChars == {"w", "h"}
UpperChars == {"W", "H"}
DigitChars == {"7"}
OtherChars == {"-", " ", "!"}
\* a letter outside ASCII, written by its code point
NonAsciiChars == {"U+00E9"}
Chars == LowerChars \cup UpperChars \cup DigitChars \cup OtherChars
            \cup NonAsciiChars

is_ascii_alphanumeric(c) == c \in LowerChars \cup UpperChars \cup DigitChars

to_ascii_lowercase(c) ==
    CASE c = "W" -> "w"
      [] c = "H" -> "h"
      [] OTHER   -> c

\* str::split('-'): the pieces between separators, empty pieces included
RECURSIVE SplitLoop(_, _, _, _)
SplitLoop(s, i, pieces, cur) ==
    IF i > Len(s) THEN Append(pieces, cur)
    ELSE IF s[i] = "-" THEN SplitLoop(s, i + 1, Append(pieces, cur), <<>>)
    ELSE SplitLoop(s, i + 1, pieces, Append(cur, s[i]))

\* [&str]::join("-")
RECURSIVE JoinLoop(_, _, _)
JoinLoop(pieces, i, acc) ==
    IF i > Len(pieces) THEN acc
    ELSE JoinLoop(pieces, i + 1,
                  IF i = 1 THEN pieces[i] ELSE acc \o <<"-">> \o pieces[i])

\* a plausible slip: the empty pieces are kept, so separators pile up
slugify_keep_empty(name) ==
    LET mapped == [i \in 1..Len(name) |->
                      IF is_ascii_alphanumeric(name[i])
                        THEN to_ascii_lowercase(name[i]) ELSE "-"]
    IN  JoinLoop(SplitLoop(mapped, 1, <<>>, <<>>), 1, <<>>)

\* a plausible slip: one separator is trimmed at each end, none collapsed
slugify_trim_once(name) ==
    LET mapped == [i \in 1..Len(name) |->
                      IF is_ascii_alphanumeric(name[i])
                        THEN to_ascii_lowercase(name[i]) ELSE "-"]
        from   == IF Len(mapped) > 0 /\ mapped[1] = "-" THEN 2 ELSE 1
        to     == IF Len(mapped) >= from /\ mapped[Len(mapped)] = "-"
                    THEN Len(mapped) - 1 ELSE Len(mapped)
    IN  SubSeq(mapped, from, to)

slugify(name) ==
    LET mapped == [i \in 1..Len(name) |->
                      IF is_ascii_alphanumeric(name[i])
                        THEN to_ascii_lowercase(name[i]) ELSE "-"]
        pieces == SelectSeq(SplitLoop(mapped, 1, <<>>, <<>>),
                            LAMBDA p : Len(p) > 0)
    IN  JoinLoop(pieces, 1, <<>>)

---------------------------------------------------------------------------
(* Files.  A file's text is [fmt, doc]: the JSON document it spells and    *)
(* how it is laid out ("pretty" as serde_json::to_string_pretty writes it, *)
(* "compact" as another program wrote it); fmt = "invalid" is text that is *)
(* not JSON.  An entry of ~/.claudectx/ is named [stem, ext]: ext is the   *)
(* part of the file name from its first dot on.                            *)

Compact(d) == [fmt |-> "compact", doc |-> d]
Garbage    == [fmt |-> "invalid", doc |-> JNull]

\* serde_json::to_string_pretty
to_string_pretty(v) == [fmt |-> "pretty", doc |-> v]

\* serde_json::from_str
from_str(text) == [ok |-> text.fmt # "invalid", val |-> text.doc]

ProfileExt == ".claude.json"
BackupExt  == ".claude.json.bak"

NoFile == [stem |-> <<>>, ext |-> ""]

\* name.ends_with(".claude.json") and name.ends_with(".bak")
EndsWithClaudeJson(f) == f.ext = ProfileExt
EndsWithBak(f)        == f.ext = BackupExt

\* path.with_extension("json.bak"), for a name that ends in ".json"
WithExtensionJsonBak(f) == [f EXCEPT !.ext = BackupExt]

get_profile_path(name) == [stem |-> slugify(name), ext |-> ProfileExt]

---------------------------------------------------------------------------
(* The filesystem [cfg, bak, dirExists, dir] and the std::fs calls on      *)
(* ~/.claude.json.  Path::exists, fs::read_to_string and fs::write follow  *)
(* a symlink; Path::is_symlink and fs::remove_file do not.                 *)

Absent        == [kind |-> "absent", content |-> Garbage, target |-> NoFile]
Regular(text) == [kind |-> "file", content |-> text, target |-> NoFile]
Symlink(f)    == [kind |-> "symlink", content |-> Garbage, target |-> f]

NoBak == [exists |-> FALSE, content |-> Garbage]

FileExists(fs, f) == fs.dirExists /\ f \in DOMAIN fs.dir

ConfigIsSymlink(fs) == fs.cfg.kind = "symlink"

ConfigExists(fs) ==
    \/ fs.cfg.kind = "file"
    \/ fs.cfg.kind = "symlink" /\ FileExists(fs, fs.cfg.target)

ReadConfig(fs) ==
    IF fs.cfg.kind = "file" THEN fs.cfg.content ELSE fs.dir[fs.cfg.target]

WriteFile(fs, f, text) == [fs EXCEPT !.dir = Insert(@, f, text)]

WriteConfig(fs, text) ==
    IF ConfigIsSymlink(fs) THEN WriteFile(fs, fs.cfg.target, text)
    ELSE [fs EXCEPT !.cfg = Regular(text)]

RemoveConfig(fs) == [fs EXCEPT !.cfg = Absent]

\* what a function leaves behind: it returns, or it panics with a message
\* (ret is the value returned: an Option<String> as [some, name], a
\* Vec<String> as names, a bool as exists, a PathBuf as path; or the lines
\* a command printed, the config text the login step created and the
\* answer given to the command's overwrite prompt, "" when it did not ask)
NoSlug == <<>>
NoRet  == [some |-> FALSE, name |-> <<>>, lines |-> <<>>, config |-> Garbage,
           answer |-> "", names |-> <<>>, exists |-> FALSE, path |-> NoFile]
Ret(fs)             == [fs |-> fs, ok |-> TRUE, msg |-> "", slug |-> NoSlug,
                        notice |-> FALSE, ret |-> NoRet]
RetNotice(fs)       == [fs |-> fs, ok |-> TRUE, msg |-> "", slug |-> NoSlug,
                        notice |-> TRUE, ret |-> NoRet]
Panic(fs, msg)      == [fs |-> fs, ok |-> FALSE, msg |-> msg, slug |-> NoSlug,
                        notice |-> FALSE, ret |-> NoRet]
PanicAt(fs, msg, s) == [fs |-> fs, ok |-> FALSE, msg |-> msg, slug |-> s,
                        notice |-> FALSE, ret |-> NoRet]
RetMsg(fs, msg)     == [fs |-> fs, ok |-> TRUE, msg |-> msg, slug |-> NoSlug,
                        notice |-> FALSE, ret |-> NoRet]
RetSome(fs, name)   == [Ret(fs) EXCEPT !.ret = [NoRet EXCEPT !.some = TRUE,
                                                             !.name = name]]
RetLines(fs, lines) == [Ret(fs) EXCEPT !.ret = [NoRet EXCEPT !.lines = lines]]
RetNames(fs, names) == [Ret(fs) EXCEPT !.ret = [NoRet EXCEPT !.names = names]]
RetBool(fs, b)      == [Ret(fs) EXCEPT !.ret = [NoRet EXCEPT !.exists = b]]
RetPath(fs, path)   == [Ret(fs) EXCEPT !.ret = [NoRet EXCEPT !.path = path]]

ensure_profiles_dir(fs) == [fs EXCEPT !.dirExists = TRUE]

profile_exists(fs, name) == FileExists(fs, get_profile_path(name))

---------------------------------------------------------------------------
(* save_profile, delete_profile, switch_to_profile.                        *)

\* a plausible slip: the whole config is stored, as the old layout did
save_profile_full(fs, name) ==
    IF ~ConfigExists(fs) THEN Panic(fs, "Failed to read Claude config")
    ELSE LET fs1    == ensure_profiles_dir(fs)
             dest   == get_profile_path(name)
             parsed == from_str(ReadConfig(fs1))
         IN  IF ~parsed.ok
               THEN Panic(fs1, "Failed to parse Claude config JSON")
               ELSE Ret(WriteFile(fs1, dest, to_string_pretty(parsed.val)))

\* a plausible slip: ~/.claudectx/ is created before the config is looked for
save_profile_mkdir_first(fs, name) ==
    LET fs1 == ensure_profiles_dir(fs) IN
    IF ~ConfigExists(fs1) THEN Panic(fs1, "Failed to read Claude config")
    ELSE LET dest   == get_profile_path(name)
             parsed == from_str(ReadConfig(fs1))
         IN  IF ~parsed.ok
               THEN Panic(fs1, "Failed to parse Claude config JSON")
               ELSE Ret(WriteFile(fs1, dest,
                          to_string_pretty(extract_account_fields(parsed.val))))

save_profile(fs, name) ==
    IF ~ConfigExists(fs) THEN Panic(fs, "Failed to read Claude config")
    ELSE LET fs1    == ensure_profiles_dir(fs)
             dest   == get_profile_path(name)
             parsed == from_str(ReadConfig(fs1))
         IN  IF ~parsed.ok
               THEN Panic(fs1, "Failed to parse Claude config JSON")
               ELSE Ret(WriteFile(fs1, dest,
                          to_string_pretty(extract_account_fields(parsed.val))))

delete_profile(fs, name) ==
    LET path == get_profile_path(name) IN
    IF ~FileExists(fs, path) THEN Panic(fs, "Failed to delete profile")
    ELSE Ret([fs EXCEPT !.dir = Remove(@, path)])

\* a plausible slip: the panic names the name as given, not its slug
switch_to_profile_raw_name(fs, name) ==
    LET profile_path == get_profile_path(name) IN
    IF ~FileExists(fs, profile_path)
      THEN PanicAt(fs, "Profile not found", name)
    ELSE LET profile == from_str(fs.dir[profile_path]) IN
         IF ~profile.ok THEN Panic(fs, "Failed to parse target profile")
         ELSE LET current == IF ConfigExists(fs) THEN from_str(ReadConfig(fs))
                             ELSE [ok |-> FALSE, val |-> JNull]
                  config  == IF current.ok THEN current.val ELSE Obj(EmptyMap)
                  patched == patch_account_fields(config, profile.val)
              IN  Ret(WriteConfig(fs, to_string_pretty(patched)))

\* a plausible slip: a config that is not an object is started afresh from
\* {}, like one that does not parse
switch_to_profile_fresh_object(fs, name) ==
    LET profile_path == get_profile_path(name) IN
    IF ~FileExists(fs, profile_path)
      THEN PanicAt(fs, "Profile not found", slugify(name))
    ELSE LET profile == from_str(fs.dir[profile_path]) IN
         IF ~profile.ok THEN Panic(fs, "Failed to parse target profile")
         ELSE LET current == IF ConfigExists(fs) THEN from_str(ReadConfig(fs))
                             ELSE [ok |-> FALSE, val |-> JNull]
                  config  == IF current.ok /\ IsObject(current.val)
                               THEN current.val ELSE Obj(EmptyMap)
                  patched == patch_account_fields(config, profile.val)
              IN  Ret(WriteConfig(fs, to_string_pretty(patched)))

\* the profile file exists, so ~/.claudectx/ does and the final fs::write
\* finds the directory of a symlink's target
switch_to_profile(fs, name) ==
    LET profile_path == get_profile_path(name) IN
    IF ~FileExists(fs, profile_path)
      THEN PanicAt(fs, "Profile not found", slugify(name))
    ELSE LET profile == from_str(fs.dir[profile_path]) IN
         IF ~profile.ok THEN Panic(fs, "Failed to parse target profile")
         ELSE LET current == IF ConfigExists(fs) THEN from_str(ReadConfig(fs))
                             ELSE [ok |-> FALSE, val |-> JNull]
                  config  == IF current.ok THEN current.val ELSE Obj(EmptyMap)
                  patched == patch_account_fields(config, profile.val)
              IN  Ret(WriteConfig(fs, to_string_pretty(patched)))

---------------------------------------------------------------------------
(* migrate_if_needed.  entries is the order in which fs::read_dir yields   *)
(* the entries of ~/.claudectx/, which the platform chooses.               *)

\* a plausible slip: the profile is rewritten before it is copied to .bak
RECURSIVE MigrateLoopSlimFirst(_, _, _)
MigrateLoopSlimFirst(fs, entries, i) ==
    IF i > Len(entries) THEN RetNotice(fs)
    ELSE LET path == entries[i] IN
         IF ~EndsWithClaudeJson(path) \/ EndsWithBak(path)
           THEN MigrateLoopSlimFirst(fs, entries, i + 1)
         ELSE LET backup_path == WithExtensionJsonBak(path)
                  parsed      == from_str(fs.dir[path])
              IN  IF ~parsed.ok
                    THEN Panic(fs, "Failed to parse profile for migration")
                    ELSE LET fs1 == WriteFile(fs, path,
                                      to_string_pretty(
                                        extract_account_fields(parsed.val)))
                         IN  MigrateLoopSlimFirst(
                               WriteFile(fs1, backup_path, fs1.dir[path]),
                               entries, i + 1)

RECURSIVE MigrateLoop(_, _, _)
MigrateLoop(fs, entries, i) ==
    IF i > Len(entries) THEN RetNotice(fs)
    ELSE LET path == entries[i] IN
         IF ~EndsWithClaudeJson(path) \/ EndsWithBak(path)
           THEN MigrateLoop(fs, entries, i + 1)
         ELSE LET backup_path == WithExtensionJsonBak(path)
                  fs1         == WriteFile(fs, backup_path, fs.dir[path])
                  parsed      == from_str(fs1.dir[path])
              IN  IF ~parsed.ok
                    THEN Panic(fs1, "Failed to parse profile for migration")
                    ELSE MigrateLoop(
                           WriteFile(fs1, path,
                             to_string_pretty(extract_account_fields(parsed.val))),
                           entries, i + 1)

\* step 4a of migrate_if_needed: fs::copy of the profile to its .bak
\* (a plausible slip first: no copy is made)
migrate_backup_skip(fs, path) == fs

migrate_backup(fs, path) ==
    WriteFile(fs, WithExtensionJsonBak(path), fs.dir[path])

\* step 4b of migrate_if_needed: the profile is read, parsed and rewritten
migrate_slim(fs, path) ==
    LET parsed == from_str(fs.dir[path]) IN
    IF ~parsed.ok THEN Panic(fs, "Failed to parse profile for migration")
    ELSE Ret(WriteFile(fs, path,
                       to_string_pretty(extract_account_fields(parsed.val))))

\* the loop's `continue`: the first entry from i on that is a profile
RECURSIVE SkipTo(_, _)
SkipTo(entries, i) ==
    IF i > Len(entries) THEN i
    ELSE IF ~EndsWithClaudeJson(entries[i]) \/ EndsWithBak(entries[i])
      THEN SkipTo(entries, i + 1)
    ELSE i

\* no run of migrate_if_needed under way, none made
NoMigration ==
    [content |-> Garbage, entries |-> <<>>, i |-> 0, runs |-> 0,
     aborted |-> FALSE, left |-> {}, later |-> 0]

\* a plausible slip: the trigger is "the config exists", not "is a symlink"
MigrationTriggerExists(fs) == ConfigExists(fs)

MigrationTrigger(fs) == ConfigIsSymlink(fs)

migrate_if_needed(fs, entries) ==
    IF ~MigrationTrigger(fs) THEN Ret(fs)
    ELSE IF ~ConfigExists(fs)
      THEN Panic(fs, "Failed to read Claude config through symlink")
    ELSE LET content == ReadConfig(fs)
             fs1     == WriteConfig(RemoveConfig(fs), content)
         IN  IF fs1.dirExists THEN MigrateLoop(fs1, entries, 1)
             ELSE RetNotice(fs1)

---------------------------------------------------------------------------
(* list_profiles, get_current_profile.  An Option<String> is [some, v].    *)

None    == [some |-> FALSE, v |-> ""]
Some(v) == [some |-> TRUE, v |-> v]

\* config.get("oauthAccount")?.get("accountUuid")?.as_str()
get_account_uuid(config) ==
    IF IsObject(config) /\ Has(config.m, "oauthAccount")
       /\ config.m["oauthAccount"].t = "account"
      THEN Some(config.m["oauthAccount"].v)
      ELSE None

\* a plausible slip: every entry of the directory is listed
list_profiles_all(fs, entries) ==
    IF ~fs.dirExists THEN <<>>
    ELSE [i \in 1..Len(entries) |-> entries[i].stem]

\* the names of the entries that end in ".claude.json" and not in ".bak",
\* in the order fs::read_dir yields them
list_profiles(fs, entries) ==
    IF ~fs.dirExists THEN <<>>
    ELSE LET kept == SelectSeq(entries,
                       LAMBDA f : ~EndsWithBak(f) /\ EndsWithClaudeJson(f))
         IN  [i \in 1..Len(kept) |-> kept[i].stem]

\* the account of the profile of a listed name, None when the file cannot
\* be read or parsed or holds no accountUuid
ProfileUuid(fs, profile_name) ==
    LET profile_path == get_profile_path(profile_name) IN
    IF ~FileExists(fs, profile_path) THEN None
    ELSE LET parsed == from_str(fs.dir[profile_path]) IN
         IF ~parsed.ok THEN None ELSE get_account_uuid(parsed.val)

RECURSIVE CurrentLoop(_, _, _, _)
CurrentLoop(fs, profiles, current_uuid, i) ==
    IF i > Len(profiles) THEN Ret(fs)
    ELSE LET profile_uuid == ProfileUuid(fs, profiles[i]) IN
         IF profile_uuid.some /\ profile_uuid.v = current_uuid
           THEN RetSome(fs, profiles[i])
           ELSE CurrentLoop(fs, profiles, current_uuid, i + 1)

\* a plausible slip: the first profile that holds any account is returned
RECURSIVE CurrentLoopAny(_, _, _, _)
CurrentLoopAny(fs, profiles, current_uuid, i) ==
    IF i > Len(profiles) THEN Ret(fs)
    ELSE IF ProfileUuid(fs, profiles[i]).some
           THEN RetSome(fs, profiles[i])
           ELSE CurrentLoopAny(fs, profiles, current_uuid, i + 1)

get_current_profile_any(fs, entries) ==
    IF ~ConfigExists(fs) THEN Ret(fs)
    ELSE LET current == from_str(ReadConfig(fs)) IN
         IF ~current.ok THEN Ret(fs)
         ELSE LET current_uuid == get_account_uuid(current.val) IN
              IF ~current_uuid.some THEN Ret(fs)
              ELSE CurrentLoopAny(fs, list_profiles(fs, entries),
                                  current_uuid.v, 1)

\* a plausible slip: a profile that cannot be parsed ends the scan
RECURSIVE CurrentLoopStrict(_, _, _, _)
CurrentLoopStrict(fs, profiles, current_uuid, i) ==
    IF i > Len(profiles) THEN Ret(fs)
    ELSE IF ~from_str(fs.dir[get_profile_path(profiles[i])]).ok
           THEN Panic(fs, "Failed to parse profile")
    ELSE IF ProfileUuid(fs, profiles[i]) = Some(current_uuid)
           THEN RetSome(fs, profiles[i])
           ELSE CurrentLoopStrict(fs, profiles, current_uuid, i + 1)

get_current_profile_strict(fs, entries) ==
    IF ~ConfigExists(fs) THEN Ret(fs)
    ELSE LET current == from_str(ReadConfig(fs)) IN
         IF ~current.ok THEN Ret(fs)
         ELSE LET current_uuid == get_account_uuid(current.val) IN
              IF ~current_uuid.some THEN Ret(fs)
              ELSE CurrentLoopStrict(fs, list_profiles(fs, entries),
                                     current_uuid.v, 1)

\* a plausible slip: the lookup creates ~/.claudectx/ when it is missing
get_current_profile_mkdir(fs, entries) ==
    LET fs1 == ensure_profiles_dir(fs) IN
    IF ~ConfigExists(fs1) THEN Ret(fs1)
    ELSE LET current == from_str(ReadConfig(fs1)) IN
         IF ~current.ok THEN Ret(fs1)
         ELSE LET current_uuid == get_account_uuid(current.val) IN
              IF ~current_uuid.some THEN Ret(fs1)
              ELSE CurrentLoop(fs1, list_profiles(fs1, entries),
                               current_uuid.v, 1)

get_current_profile(fs, entries) ==
    IF ~ConfigExists(fs) THEN Ret(fs)
    ELSE LET current == from_str(ReadConfig(fs)) IN
         IF ~current.ok THEN Ret(fs)
         ELSE LET current_uuid == get_account_uuid(current.val) IN
              IF ~current_uuid.some THEN Ret(fs)
              ELSE CurrentLoop(fs, list_profiles(fs, entries),
                               current_uuid.v, 1)

---------------------------------------------------------------------------
(* backup_claude_config, restore_claude_config (~/.claude.json.bak).       *)

\* returns [fs, had]: had is true when a backup was made
backup_claude_config(fs) ==
    IF ConfigExists(fs)
      THEN [fs  |-> RemoveConfig([fs EXCEPT !.bak = [exists  |-> TRUE,
                                                     content |-> ReadConfig(fs)]]),
            had |-> TRUE]
      ELSE [fs |-> fs, had |-> FALSE]

\* fs::rename replaces what is at the config path, a dangling link included
restore_claude_config(fs, had_backup) ==
    LET fs1 == IF ConfigExists(fs) THEN RemoveConfig(fs) ELSE fs IN
    IF had_backup /\ fs1.bak.exists
      THEN [fs1 EXCEPT !.cfg = Regular(fs1.bak.content), !.bak = NoBak]
      ELSE fs1

claude_config_exists(fs) == ConfigExists(fs)

---------------------------------------------------------------------------
(* The commands of main.rs and the login workflow of login.rs.             *)

\* a plausible slip: the account is optional, a config without one passes
get_oauth_account_optional(config) == ""

\* config::get_oauth_account: the panic message, or "" when it returns
get_oauth_account(config) ==
    IF ~(IsObject(config) /\ Has(config.m, "oauthAccount"))
      THEN "oauthAccount field is missing from claude.json"
    ELSE IF config.m["oauthAccount"].t # "account"
      THEN "Failed to parse oauthAccount"
    ELSE ""

\* the loop of Commands::List over profiles[i..]; printed holds the lines
\* printed so far
RECURSIVE ListLoop(_, _, _, _, _)
ListLoop(fs, profiles, current_profile, i, printed) ==
    IF i > Len(profiles) THEN RetLines(fs, printed)
    ELSE LET path == get_profile_path(profiles[i]) IN
         IF ~FileExists(fs, path) THEN Panic(fs, "Failed to read profile")
         ELSE LET config == from_str(fs.dir[path]) IN
              IF ~config.ok THEN Panic(fs, "Failed to parse profile")
              ELSE IF get_oauth_account(config.val) # ""
                THEN Panic(fs, get_oauth_account(config.val))
              ELSE ListLoop(fs, profiles, current_profile, i + 1,
                       Append(printed,
                              [name   |-> profiles[i],
                               marker |-> current_profile.some
                                          /\ current_profile.name = profiles[i]]))

\* a plausible slip: a profile that does not parse is skipped
RECURSIVE ListLoopSkip(_, _, _, _, _)
ListLoopSkip(fs, profiles, current_profile, i, printed) ==
    IF i > Len(profiles) THEN RetLines(fs, printed)
    ELSE LET path == get_profile_path(profiles[i]) IN
         IF ~FileExists(fs, path) THEN Panic(fs, "Failed to read profile")
         ELSE LET config == from_str(fs.dir[path]) IN
              IF ~config.ok
                THEN ListLoopSkip(fs, profiles, current_profile, i + 1, printed)
              ELSE IF get_oauth_account(config.val) # ""
                THEN Panic(fs, get_oauth_account(config.val))
              ELSE ListLoopSkip(fs, profiles, current_profile, i + 1,
                       Append(printed,
                              [name   |-> profiles[i],
                               marker |-> current_profile.some
                                          /\ current_profile.name = profiles[i]]))

main_list_skip(fs, entries) ==
    LET profiles == list_profiles(fs, entries) IN
    IF profiles = <<>> THEN RetMsg(fs, "No profiles found.")
    ELSE ListLoopSkip(fs, profiles, get_current_profile(fs, entries).ret, 1, <<>>)

\* Commands::List
main_list(fs, entries) ==
    LET profiles == list_profiles(fs, entries) IN
    IF profiles = <<>> THEN RetMsg(fs, "No profiles found.")
    ELSE ListLoop(fs, profiles, get_current_profile(fs, entries).ret, 1, <<>>)

\* the answers to a Confirm prompt: "fail" is an interact() error
Answers == {"yes", "no", "fail"}

\* a plausible slip: the answer to the overwrite prompt is not looked at
main_save_no_confirm(fs, name, overwrite) ==
    IF profile_exists(fs, name) /\ overwrite = "fail"
      THEN Panic(fs, "Failed to prompt")
    ELSE LET r == save_profile(fs, name) IN
         IF r.ok THEN [r EXCEPT !.msg = "Saved current config as",
                                !.slug = slugify(name)]
         ELSE r

\* Commands::Save
main_save(fs, name, overwrite) ==
    IF profile_exists(fs, name) /\ overwrite = "fail"
      THEN Panic(fs, "Failed to prompt")
    ELSE IF profile_exists(fs, name) /\ overwrite = "no"
      THEN RetMsg(fs, "Cancelled.")
    ELSE LET r == save_profile(fs, name) IN
         IF r.ok THEN [r EXCEPT !.msg = "Saved current config as",
                                !.slug = slugify(name)]
         ELSE r

\* Commands::Delete
main_delete(fs, name) ==
    IF ~profile_exists(fs, name)
      THEN PanicAt(fs, "Profile not found", slugify(name))
    ELSE LET r == delete_profile(fs, name) IN
         IF r.ok THEN [r EXCEPT !.msg = "Deleted profile", !.slug = slugify(name)]
         ELSE r

\* launcher::switch_and_launch_claude up to the exec of claude
switch_and_launch_claude(fs, name) == switch_to_profile(fs, name)

\* launch mode with a profile name: main.rs 81-103
main_launch(fs, name, create) ==
    IF FileExists(fs, get_profile_path(name))
      THEN switch_and_launch_claude(fs, name)
    ELSE IF create = "fail" THEN Panic(fs, "Failed to prompt")
    ELSE IF create = "no"
      THEN PanicAt(fs, "Profile not found", slugify(name))
    ELSE LET r == save_profile(fs, name) IN
         IF r.ok THEN switch_and_launch_claude(r.fs, name) ELSE r

\* launch mode without a name: main.rs 60-79; selected is what
\* ui::select_profile returns
main_launch_interactive(fs, entries, selected) ==
    LET profiles == list_profiles(fs, entries) IN
    IF profiles = <<>>
      THEN IF ~ConfigExists(fs) THEN Panic(fs, "Failed to read Claude config")
           ELSE LET config == from_str(ReadConfig(fs)) IN
                IF ~config.ok THEN Panic(fs, "Failed to parse Claude config JSON")
                ELSE IF get_oauth_account(config.val) # ""
                  THEN Panic(fs, get_oauth_account(config.val))
                ELSE RetMsg(fs, "No profiles saved yet.")
    ELSE IF ~selected.some THEN Panic(fs, "No profile selected")
    ELSE main_launch(fs, selected.v, "no")

\* what `claude /login` did: whether it could be started and how it
\* exited, the config text it wrote, and the answers to the prompts
NoWrite      == [some |-> FALSE, text |-> Garbage]
Wrote(text)  == [some |-> TRUE, text |-> text]

\* login::run_login_workflow up to the restore of step 5
run_login_workflow(fs, env) ==
    LET b          == backup_claude_config(fs)
        had_backup == b.had
        fs1        == b.fs
    IN
    IF env.launch = "fail" THEN Panic(fs1, "Failed to launch 'claude /login'")
    ELSE
    LET fs2 == IF env.wrote.some THEN WriteConfig(fs1, env.wrote.text) ELSE fs1 IN
    IF env.launch = "nonzero"
      THEN Panic(restore_claude_config(fs2, had_backup),
                 "Login process exited with status")
    ELSE IF ~claude_config_exists(fs2)
      THEN Panic(restore_claude_config(fs2, had_backup),
                 "Login did not create a config file")
    ELSE
    LET new_config == from_str(ReadConfig(fs2)) IN
    IF ~new_config.ok THEN Panic(fs2, "Failed to parse Claude config JSON")
    ELSE IF get_oauth_account(new_config.val) # ""
      THEN Panic(fs2, get_oauth_account(new_config.val))
    ELSE IF ~env.nameOk THEN Panic(fs2, "Failed to read profile name")
    ELSE IF profile_exists(fs2, env.name) /\ env.overwrite = "fail"
      THEN Panic(fs2, "Failed to prompt")
    ELSE IF profile_exists(fs2, env.name) /\ env.overwrite = "no"
      THEN RetMsg(restore_claude_config(fs2, had_backup),
                  "Cancelled. Cleaning up...")
    ELSE
    LET saved == save_profile(fs2, env.name) IN
    IF ~saved.ok THEN saved
    ELSE [RetMsg(restore_claude_config(saved.fs, had_backup), "Saved profile")
            EXCEPT !.slug = slugify(env.name),
                   !.ret = [NoRet EXCEPT !.config = ReadConfig(fs2)]]

\* step 6 of login::run_login_workflow: the offers to launch
login_offer(fs, name, entries, launch_new, select_other, selected) ==
    IF launch_new = "fail" THEN Panic(fs, "Failed to prompt")
    ELSE IF launch_new = "yes" THEN switch_and_launch_claude(fs, name)
    ELSE IF list_profiles(fs, entries) = <<>> THEN RetMsg(fs, "Done.")
    ELSE IF select_other = "fail" THEN Panic(fs, "Failed to prompt")
    ELSE IF select_other = "yes" /\ selected.some
      THEN switch_and_launch_claude(fs, selected.v)
    ELSE RetMsg(fs, "Done.")

---------------------------------------------------------------------------
(* Inputs.                                                                 *)

\* the object with the keys S, every value marked by tag
DocOf(S, tag) ==
    Obj([k \in S |-> IF k = "oauthAccount" THEN Acct(tag) ELSE Str(tag)])

Tags == {"a", "b"}

\* the documents the pure functions are applied to
PureDocs ==
    {DocOf(S, tag) : S \in {T \in SUBSET AllKeys : Cardinality(T) <= MaxKeys},
                     tag \in Tags}
    \cup {JArray, JNull}

\* two full configurations, as the wrapped tool writes them
FullA == DocOf({"oauthAccount", "userID", "primaryApiKey"}, "a")
FullB == DocOf({"oauthAccount", "hasAvailableSubscription", "primaryApiKey",
                "hasCompletedOnboarding"}, "b")

\* profile names given on the command line; "W" and "w!" share the slug "w"
Names  == {<<"W">>, <<"h">>, <<"w", "!">>}
NoName == <<>>

FileW == [stem |-> <<"w">>, ext |-> ProfileExt]
FileH == [stem |-> <<"h">>, ext |-> ProfileExt]

EmptyFiles == [f \in {} |-> Garbage]
OneFile(f, text)           == Insert(EmptyFiles, f, text)
TwoFiles(f, text, g, more) == Insert(OneFile(f, text), g, more)

Slim(d) == to_string_pretty(extract_account_fields(d))

\* ~/.claude.json of the current layout: absent or a regular file
LiveConfigs ==
    {Absent} \cup
    {Regular(text) : text \in {Compact(FullA), to_string_pretty(FullB),
                               Compact(JArray), Garbage}}

\* ~/.claudectx/ of the current layout: slim profiles
SlimDirs ==
    { [exists |-> FALSE, files |-> EmptyFiles],
      [exists |-> TRUE,  files |-> TwoFiles(FileW, Slim(FullA), FileH, Slim(FullB))],
      [exists |-> TRUE,  files |-> OneFile(FileW, Slim(FullB))],
      [exists |-> TRUE,  files |-> TwoFiles(FileW, Slim(FullA), FileH, Garbage)],
      [exists |-> TRUE,  files |-> OneFile(FileW, to_string_pretty(JArray))] }

\* ~/.claudectx/ of the old layout: full copies, ~/.claude.json links to one
LegacyDirs ==
    { TwoFiles(FileW, Compact(FullA), FileH, Compact(FullB)),
      TwoFiles(FileW, Compact(FullA), FileH, Garbage),
      OneFile(FileW, Compact(FullA)) }

InitialFilesystems ==
    {[cfg |-> c, bak |-> NoBak, dirExists |-> d.exists, dir |-> d.files] :
        c \in LiveConfigs, d \in SlimDirs}
    \cup
    {[cfg |-> Symlink(f), bak |-> NoBak, dirExists |-> TRUE, dir |-> files] :
        f \in {FileW, FileH}, files \in LegacyDirs}

\* the runs of `claude /login` and the answers given to the workflow
LoginEnv(launch, wrote, nameOk, name, overwrite) ==
    [launch |-> launch, wrote |-> wrote, nameOk |-> nameOk, name |-> name,
     overwrite |-> overwrite]
NoAccount == DocOf({"userID"}, "b")
LoginEnvs ==
    {LoginEnv("fail", NoWrite, FALSE, NoName, "no")}
    \cup {LoginEnv("nonzero", w, FALSE, NoName, "no") :
              w \in {NoWrite, Wrote(Compact(FullB))}}
    \cup {LoginEnv("ok", w, FALSE, NoName, "no") :
              w \in {NoWrite, Wrote(Garbage), Wrote(Compact(NoAccount)),
                     Wrote(Compact(FullB))}}
    \cup {LoginEnv("ok", Wrote(Compact(FullB)), TRUE, n, o) :
              n \in {<<"W">>, <<"h">>}, o \in Answers}
    \cup {LoginEnv("ok", Wrote(Compact(FullA)), TRUE, <<"h">>, "yes")}

\* the entries among S that migration and listing take for profiles
ProfileEntries(S) == {f \in S : EndsWithClaudeJson(f) /\ ~EndsWithBak(f)}

\* the orders in which fs::read_dir may yield the entries S
Orders(S) ==
    {o \in [1..Cardinality(S) -> S] :
        \A i, j \in 1..Cardinality(S) : i # j => o[i] # o[j]}

\* one of them, for the callers that only ask whether any profile is listed
AnyOrder(S) == CHOOSE o \in Orders(S) : TRUE

---------------------------------------------------------------------------
(* The state machine of the filesystem: calls of the functions of          *)
(* profiles.rs, one after the other.                                       *)

CurFS == [cfg |-> claudeJson, bak |-> claudeBak, dirExists |-> dirExists,
          dir |-> dir]

Init ==
    /\ \E fs \in InitialFilesystems :
          /\ claudeJson = fs.cfg
          /\ claudeBak = fs.bak
          /\ dirExists = fs.dirExists
          /\ dir = fs.dir
          /\ fs0 = fs
          /\ pre = fs
    /\ log = <<>>
    /\ pc = "idle"
    /\ mig = NoMigration
    /\ switches = <<>>
    /\ argConfig = JNull
    /\ argProfile = JNull
    /\ retVal = JNull
    /\ retAgain = JNull
    /\ called = "off"

\* the filesystem a call leaves, and its record in the log
Commit(op, name, entries, r, next) ==
    /\ claudeJson' = r.fs.cfg
    /\ claudeBak' = r.fs.bak
    /\ dirExists' = r.fs.dirExists
    /\ dir' = r.fs.dir
    /\ log' = Append(log, [op |-> op, name |-> name, entries |-> entries,
                           ok |-> r.ok, msg |-> r.msg, slug |-> r.slug,
                           notice |-> r.notice, ret |-> r.ret])
    /\ pre' = CurFS
    /\ pc' = next
    /\ UNCHANGED <<fs0, mig, switches>>
    /\ UNCHANGED pureVars

Call(op, name, r) ==
    /\ pc = "idle"
    /\ Len(log) < MaxOps
    /\ Commit(op, name, <<>>, r, "idle")

SaveProfile ==
    \E name \in Names : Call("save_profile", name, save_profile(CurFS, name))

DeleteProfile ==
    \E name \in Names : Call("delete_profile", name, delete_profile(CurFS, name))

SwitchToProfile ==
    \E name \in Names :
        Call("switch_to_profile", name, switch_to_profile(CurFS, name))

MigrateIfNeeded ==
    \E entries \in Orders(DOMAIN dir) :
        Call("migrate_if_needed", NoName, migrate_if_needed(CurFS, entries))

GetCurrentProfile ==
    \E entries \in Orders(DOMAIN dir) :
        /\ pc = "idle"
        /\ Len(log) < MaxOps
        /\ Commit("get_current_profile", NoName, entries,
                  get_current_profile(CurFS, entries), "idle")

Next ==
    \/ SaveProfile
    \/ DeleteProfile
    \/ SwitchToProfile
    \/ MigrateIfNeeded
    \/ GetCurrentProfile

Spec == Init /\ [][Next]_vars

---------------------------------------------------------------------------
(* migrate_if_needed statement by statement: every filesystem operation is *)
(* a step, and the process may end between any two of them (a panic of     *)
(* an expect, or the process being killed).                                *)

MigStep(fs, next, m) ==
    /\ claudeJson' = fs.cfg
    /\ claudeBak' = fs.bak
    /\ dirExists' = fs.dirExists
    /\ dir' = fs.dir
    /\ pc' = next
    /\ mig' = m
    /\ UNCHANGED <<log, fs0, switches>>
    /\ UNCHANGED pureVars

\* the statements after step 3, the write of the regular file
AfterWrite == {"mig_read_dir", "mig_copy", "mig_slim", "mig_done"}

\* the profiles a run that ends now has not slimmed
Unslimmed ==
    IF pc = "mig_read_dir" THEN ProfileEntries(DOMAIN dir)
    ELSE IF pc \in {"mig_copy", "mig_slim"}
      THEN {mig.entries[j] : j \in mig.i..Len(mig.entries)}
             \cap ProfileEntries(DOMAIN dir)
    ELSE {}

\* the run ends here: the first end after step 3 is kept on record
Aborted ==
    IF pc \in AfterWrite /\ ~mig.aborted
      THEN [mig EXCEPT !.aborted = TRUE, !.left = Unslimmed]
      ELSE mig

\* profiles.rs 272-276: the trigger
MigBegin ==
    /\ pc = "idle"
    /\ mig.runs < MaxRuns
    /\ pre' = CurFS
    /\ MigStep(CurFS,
               IF MigrationTrigger(CurFS) THEN "mig_read" ELSE "idle",
               [mig EXCEPT !.runs = @ + 1,
                           !.later = IF mig.aborted THEN @ + 1 ELSE @])

\* profiles.rs 279-280: step 1
MigReadConfig ==
    /\ pc = "mig_read"
    /\ UNCHANGED pre
    /\ IF ConfigExists(CurFS)
         THEN MigStep(CurFS, "mig_remove",
                      [mig EXCEPT !.content = ReadConfig(CurFS)])
         ELSE MigStep(CurFS, "idle", mig)

\* profiles.rs 283: step 2
MigRemoveLink ==
    /\ pc = "mig_remove"
    /\ UNCHANGED pre
    /\ MigStep(RemoveConfig(CurFS), "mig_write", mig)

\* profiles.rs 286: step 3
MigWriteConfig ==
    /\ pc = "mig_write"
    /\ UNCHANGED pre
    /\ MigStep(WriteConfig(CurFS, mig.content),
               IF dirExists THEN "mig_read_dir" ELSE "mig_done", mig)

\* profiles.rs 289-294: fs::read_dir
MigReadDir ==
    /\ pc = "mig_read_dir"
    /\ UNCHANGED pre
    /\ \E entries \in Orders(DOMAIN dir) :
          LET i == SkipTo(entries, 1) IN
          MigStep(CurFS, IF i > Len(entries) THEN "mig_done" ELSE "mig_copy",
                  [mig EXCEPT !.entries = entries, !.i = i])

\* profiles.rs 309-311: step 4a
MigCopy ==
    /\ pc = "mig_copy"
    /\ UNCHANGED pre
    /\ MigStep(migrate_backup(CurFS, mig.entries[mig.i]), "mig_slim", mig)

\* profiles.rs 313-321: step 4b, and on to the next profile
MigSlim ==
    /\ pc = "mig_slim"
    /\ UNCHANGED pre
    /\ LET r == migrate_slim(CurFS, mig.entries[mig.i])
           i == SkipTo(mig.entries, mig.i + 1)
       IN  IF r.ok
             THEN MigStep(r.fs,
                          IF i > Len(mig.entries) THEN "mig_done" ELSE "mig_copy",
                          [mig EXCEPT !.i = i])
             ELSE MigStep(r.fs, "idle", Aborted)

\* profiles.rs 325: the notice, and the return
MigFinish ==
    /\ pc = "mig_done"
    /\ UNCHANGED pre
    /\ MigStep(CurFS, "idle", mig)

\* the process ends between two statements of the run
MigCrash ==
    /\ pc \in {"mig_read", "mig_remove", "mig_write"} \cup AfterWrite
    /\ pc # "mig_done"
    /\ UNCHANGED pre
    /\ MigStep(CurFS, "idle", Aborted)

NextMig ==
    \/ MigBegin
    \/ MigReadConfig
    \/ MigRemoveLink
    \/ MigWriteConfig
    \/ MigReadDir
    \/ MigCopy
    \/ MigSlim
    \/ MigFinish
    \/ MigCrash

SpecMig == Init /\ [][NextMig]_vars

---------------------------------------------------------------------------
(* The profile store: the functions of profiles.rs that list, look up,     *)
(* save and delete profiles, and migration, which writes into the store.   *)

StoreCall(op, name, entries, r) ==
    /\ pc = "idle"
    /\ Len(log) < MaxStoreOps
    /\ Commit(op, name, entries, r, "idle")

StoreSave ==
    \E name \in Names :
        StoreCall("save_profile", name, <<>>, save_profile(CurFS, name))

StoreDelete ==
    \E name \in Names :
        StoreCall("delete_profile", name, <<>>, delete_profile(CurFS, name))

StoreMigrate ==
    \E entries \in Orders(DOMAIN dir) :
        StoreCall("migrate_if_needed", NoName, <<>>,
                  migrate_if_needed(CurFS, entries))

StoreList ==
    \E entries \in Orders(DOMAIN dir) :
        StoreCall("list_profiles", NoName, entries,
                  RetNames(CurFS, list_profiles(CurFS, entries)))

StoreExists ==
    \E name \in Names :
        StoreCall("profile_exists", name, <<>>,
                  RetBool(CurFS, profile_exists(CurFS, name)))

StorePath ==
    \E name \in Names :
        StoreCall("get_profile_path", name, <<>>,
                  RetPath(CurFS, get_profile_path(name)))

StoreCurrent ==
    \E entries \in Orders(DOMAIN dir) :
        StoreCall("get_current_profile", NoName, entries,
                  get_current_profile(CurFS, entries))

NextStore ==
    \/ StoreSave
    \/ StoreDelete
    \/ StoreMigrate
    \/ StoreList
    \/ StoreExists
    \/ StorePath
    \/ StoreCurrent

SpecStore == Init /\ [][NextStore]_vars

---------------------------------------------------------------------------
(* The state machine of the tool: invocations of main, one after the       *)
(* other, each running from its first to its last statement.               *)

Command(op, name, entries, r, next) ==
    /\ pc = "idle"
    /\ Len(log) < MaxCmds
    /\ Commit(op, name, entries, r, next)

CmdList ==
    \E entries \in Orders(DOMAIN dir) :
        Command("list", NoName, entries, main_list(CurFS, entries), "idle")

\* the answers a prompt can get, "no" when the prompt is not reached
AnswersIf(asked) == IF asked THEN Answers ELSE {"no"}

\* the result r, with the answer given to the overwrite prompt on record
Asked(r, answer) == [r EXCEPT !.ret = [@ EXCEPT !.answer = answer]]

CmdSave ==
    \E name \in Names :
        \E overwrite \in AnswersIf(profile_exists(CurFS, name)) :
            Command("save", name, <<>>,
                    Asked(main_save(CurFS, name, overwrite),
                          IF profile_exists(CurFS, name) THEN overwrite ELSE ""),
                    "idle")

CmdDelete ==
    \E name \in Names :
        Command("delete", name, <<>>, main_delete(CurFS, name), "idle")

CmdLaunch ==
    \E name \in Names :
        \E create \in AnswersIf(~profile_exists(CurFS, name)) :
            Command("launch", name, <<>>, main_launch(CurFS, name, create),
                    "idle")

\* what ui::select_profile may return: a listed profile, or nothing
Selections ==
    {[some |-> FALSE, v |-> NoName]}
    \cup {[some |-> TRUE, v |-> f.stem] : f \in DOMAIN dir}

CmdLaunchInteractive ==
    \E selected \in Selections :
        Command("launch", NoName, <<>>,
                main_launch_interactive(CurFS, AnyOrder(DOMAIN dir), selected),
                "idle")

LoginSaved(r) == r.ok /\ r.msg = "Saved profile"

CmdLogin ==
    \E env \in LoginEnvs :
        LET r == Asked(run_login_workflow(CurFS, env),
                       IF env.nameOk THEN env.overwrite ELSE "")
        IN
        Command("login", env.name, <<>>, r,
                IF LoginSaved(r) THEN "login_offer" ELSE "idle")

\* the answers to the two offers: the second prompt is reached only
\* after "no" to the first, ui::select_profile only after "yes" to the second
Offers ==
    {[launch_new |-> "fail", select_other |-> "no"],
     [launch_new |-> "yes",  select_other |-> "no"],
     [launch_new |-> "no",   select_other |-> "fail"],
     [launch_new |-> "no",   select_other |-> "no"],
     [launch_new |-> "no",   select_other |-> "yes"]}

LoginOffer ==
    /\ pc = "login_offer"
    /\ \E offer \in Offers :
          \E selected \in IF offer.select_other = "yes" THEN Selections
                           ELSE {[some |-> FALSE, v |-> NoName]} :
              Commit("login_offer", log[Len(log)].name, <<>>,
                     login_offer(CurFS, log[Len(log)].name, AnyOrder(DOMAIN dir),
                                 offer.launch_new, offer.select_other, selected),
                     "idle")

NextCmd ==
    \/ CmdList
    \/ CmdSave
    \/ CmdDelete
    \/ CmdLaunch
    \/ CmdLaunchInteractive
    \/ CmdLogin
    \/ LoginOffer

SpecCmd == Init /\ [][NextCmd]_vars

---------------------------------------------------------------------------
(* The writers of ~/.claudectx/: save, delete, switch, the login workflow  *)
(* (whose closing offers are switches) and migration, in any order.        *)

SlimCall(op, name, r) ==
    /\ pc = "idle"
    /\ Len(log) < MaxSlimOps
    /\ Commit(op, name, <<>>, r, "idle")

SlimSave ==
    \E name \in Names : SlimCall("save_profile", name, save_profile(CurFS, name))

SlimDelete ==
    \E name \in Names :
        SlimCall("delete_profile", name, delete_profile(CurFS, name))

SlimSwitch ==
    \E name \in Names :
        SlimCall("switch_to_profile", name, switch_to_profile(CurFS, name))

SlimLogin ==
    \E env \in LoginEnvs :
        SlimCall("login", env.name, run_login_workflow(CurFS, env))

SlimMigrate ==
    \E entries \in Orders(DOMAIN dir) :
        SlimCall("migrate_if_needed", NoName, migrate_if_needed(CurFS, entries))

NextSlim ==
    \/ SlimSave
    \/ SlimDelete
    \/ SlimSwitch
    \/ SlimLogin
    \/ SlimMigrate

SpecSlim == Init /\ [][NextSlim]_vars

---------------------------------------------------------------------------
(* Invocations of switch_to_profile side by side, each in its own process: *)
(* the read of the profile, the read of ~/.claude.json and the write of    *)
(* ~/.claude.json are steps, each file read and write being atomic, and    *)
(* the steps of the processes interleave in any order.                     *)

\* an invocation before its first statement
Starting(name) ==
    [at |-> "read_profile", name |-> name, profile |-> JNull, config |-> JNull]

RaceStep(fs, sw, lg) ==
    /\ claudeJson' = fs.cfg
    /\ claudeBak' = fs.bak
    /\ dirExists' = fs.dirExists
    /\ dir' = fs.dir
    /\ switches' = sw
    /\ log' = lg
    /\ pre' = CurFS
    /\ UNCHANGED <<fs0, pc, mig>>
    /\ UNCHANGED pureVars

\* the log with the end of invocation p, which left r
Ended(p, r) ==
    Append(log, [op |-> "switch_to_profile", name |-> switches[p].name,
                 entries |-> <<>>, ok |-> r.ok, msg |-> r.msg, slug |-> r.slug,
                 notice |-> r.notice, ret |-> r.ret])

\* the processes are started, each with a profile name
SwBegin ==
    /\ pc = "idle"
    /\ log = <<>>
    /\ switches = <<>>
    /\ \E names \in [1..MaxSwitches -> Names] :
          RaceStep(CurFS, [p \in 1..MaxSwitches |-> Starting(names[p])], log)

\* profiles.rs 166-176: the profile is looked for, read and parsed
SwReadProfile ==
    \E p \in DOMAIN switches :
        /\ switches[p].at = "read_profile"
        /\ LET name         == switches[p].name
               profile_path == get_profile_path(name)
           IN  IF ~FileExists(CurFS, profile_path)
                 THEN RaceStep(CurFS, [switches EXCEPT ![p].at = "failed"],
                               Ended(p, PanicAt(CurFS, "Profile not found",
                                                slugify(name))))
               ELSE IF ~from_str(dir[profile_path]).ok
                 THEN RaceStep(CurFS, [switches EXCEPT ![p].at = "failed"],
                               Ended(p, Panic(CurFS,
                                              "Failed to parse target profile")))
               ELSE RaceStep(CurFS,
                             [switches EXCEPT
                                ![p].at = "read_config",
                                ![p].profile = from_str(dir[profile_path]).val],
                             log)

\* profiles.rs 179-184: the live config is read, {} standing in for one
\* that is missing or does not parse
SwReadConfig ==
    \E p \in DOMAIN switches :
        /\ switches[p].at = "read_config"
        /\ LET current == IF ConfigExists(CurFS) THEN from_str(ReadConfig(CurFS))
                          ELSE [ok |-> FALSE, val |-> JNull]
               config  == IF current.ok THEN current.val ELSE Obj(EmptyMap)
           IN  RaceStep(CurFS,
                        [switches EXCEPT ![p].at = "write", ![p].config = config],
                        log)

\* profiles.rs 187-191: the patch of the value read, and the write
SwWrite ==
    \E p \in DOMAIN switches :
        /\ switches[p].at = "write"
        /\ LET patched == patch_account_fields(switches[p].config,
                                               switches[p].profile)
               fs      == WriteConfig(CurFS, to_string_pretty(patched))
           IN  RaceStep(fs, [switches EXCEPT ![p].at = "done"], Ended(p, Ret(fs)))

NextRace ==
    \/ SwBegin
    \/ SwReadProfile
    \/ SwReadConfig
    \/ SwWrite

SpecRace == Init /\ [][NextRace]_vars

---------------------------------------------------------------------------
(* The pure functions applied to bounded inputs.                           *)

PureInit ==
    /\ argConfig \in PureDocs
    /\ argProfile \in PureDocs
    /\ retVal = JNull
    /\ retAgain = JNull
    /\ called = "none"
    /\ claudeJson = Absent
    /\ claudeBak = NoBak
    /\ dirExists = FALSE
    /\ dir = EmptyFiles
    /\ log = <<>>
    /\ fs0 = [cfg |-> Absent, bak |-> NoBak, dirExists |-> FALSE,
              dir |-> EmptyFiles]
    /\ pre = fs0
    /\ pc = "idle"
    /\ mig = NoMigration
    /\ switches = <<>>

CallExtract ==
    /\ called = "none"
    /\ retVal' = extract_account_fields(argConfig)
    /\ called' = "extract_account_fields"
    /\ UNCHANGED <<argConfig, argProfile, retAgain>>
    /\ UNCHANGED fsVars

CallPatch ==
    /\ called = "none"
    /\ retVal' = patch_account_fields(argConfig, argProfile)
    /\ called' = "patch_account_fields"
    /\ UNCHANGED <<argConfig, argProfile, retAgain>>
    /\ UNCHANGED fsVars

\* the patch applied a second time, with the same profile, to the config
\* the first call left
CallPatchAgain ==
    /\ called = "patch_account_fields"
    /\ retAgain' = patch_account_fields(retVal, argProfile)
    /\ called' = "patch_account_fields_twice"
    /\ UNCHANGED <<argConfig, argProfile, retVal>>
    /\ UNCHANGED fsVars

PureNext ==
    \/ CallExtract
    \/ CallPatch
    \/ CallPatchAgain

SpecPure == PureInit /\ [][PureNext]_vars

---------------------------------------------------------------------------
(* slugify applied to bounded names, and applied again to its result.      *)

RECURSIVE SeqsUpTo(_, _)
SeqsUpTo(S, n) ==
    IF n = 0 THEN {<<>>}
    ELSE LET shorter == SeqsUpTo(S, n - 1) IN
         shorter \cup {Append(x, c) : x \in shorter, c \in S}

SlugInputs == SeqsUpTo(Chars, MaxLen)

SlugInit ==
    /\ argConfig \in SlugInputs
    /\ argProfile = <<>>
    /\ retVal = <<>>
    /\ retAgain = <<>>
    /\ called = "none"
    /\ claudeJson = Absent
    /\ claudeBak = NoBak
    /\ dirExists = FALSE
    /\ dir = EmptyFiles
    /\ log = <<>>
    /\ fs0 = [cfg |-> Absent, bak |-> NoBak, dirExists |-> FALSE,
              dir |-> EmptyFiles]
    /\ pre = fs0
    /\ pc = "idle"
    /\ mig = NoMigration
    /\ switches = <<>>

\* retVal = slugify(name)
CallSlugify ==
    /\ called = "none"
    /\ retVal' = slugify(argConfig)
    /\ called' = "slugify"
    /\ UNCHANGED <<argConfig, argProfile, retAgain>>
    /\ UNCHANGED fsVars

\* argProfile = slugify(slugify(name))
CallSlugifyAgain ==
    /\ called = "slugify"
    /\ argProfile' = slugify(retVal)
    /\ called' = "slugify_twice"
    /\ UNCHANGED <<argConfig, retVal, retAgain>>
    /\ UNCHANGED fsVars

SlugNext ==
    \/ CallSlugify
    \/ CallSlugifyAgain

SpecSlug == SlugInit /\ [][SlugNext]_vars

---------------------------------------------------------------------------
(* Claims about the pure functions, checked under SpecPure.                *)

Patched   == called = "patch_account_fields"
Extracted == called = "extract_account_fields"

\* C2: after patch_account_fields(liveConfig, profile) on two JSON objects,
\* each of the eight account-specific keys k holds profile[k] in liveConfig
\* if profile has k, and is absent from liveConfig otherwise.
C2_PatchSetsAccountKeys ==
    (Patched /\ IsObject(argConfig) /\ IsObject(argProfile)) =>
        /\ IsObject(retVal)
        /\ \A k \in AccountKeys :
              IF k \in DOMAIN argProfile.m
                THEN k \in DOMAIN retVal.m /\ retVal.m[k] = argProfile.m[k]
                ELSE k \notin DOMAIN retVal.m

\* a patch that overwrote one account key and removed another
C2_Witness ==
    /\ Patched /\ IsObject(argConfig) /\ IsObject(argProfile)
    /\ \E k \in AccountKeys :
          /\ k \in DOMAIN argConfig.m /\ k \in DOMAIN argProfile.m
          /\ argConfig.m[k] # argProfile.m[k]
          /\ retVal.m[k] = argProfile.m[k]
    /\ \E k \in AccountKeys :
          /\ k \in DOMAIN argConfig.m /\ k \notin DOMAIN argProfile.m
          /\ k \notin DOMAIN retVal.m

\* C3: patch_account_fields leaves every key outside the account-specific
\* set as it was in liveConfig (same keys, same values) and copies no such
\* key from profile, even when profile holds one.
C3_PatchLeavesPortableKeys ==
    (Patched /\ IsObject(argConfig) /\ IsObject(argProfile)) =>
        /\ (DOMAIN retVal.m) \ AccountKeys = (DOMAIN argConfig.m) \ AccountKeys
        /\ \A k \in (DOMAIN argConfig.m) \ AccountKeys :
              retVal.m[k] = argConfig.m[k]

\* a patch whose profile holds a portable key with another value than the
\* config's, and a portable key the config lacks
C3_Witness ==
    /\ Patched /\ IsObject(argConfig) /\ IsObject(argProfile)
    /\ \E k \in PortableKeys :
          /\ k \in DOMAIN argConfig.m /\ k \in DOMAIN argProfile.m
          /\ argConfig.m[k] # argProfile.m[k]
          /\ retVal.m[k] = argConfig.m[k]
    /\ \E k \in PortableKeys :
          /\ k \notin DOMAIN argConfig.m /\ k \in DOMAIN argProfile.m
          /\ k \notin DOMAIN retVal.m

\* C8: extract_account_fields(d) holds an account-specific key k exactly
\* when d holds it, with the same value, and holds no other key; for a d
\* that is not a JSON object it is the empty object.
C8_ExtractKeepsAccountKeysOnly ==
    Extracted =>
        /\ IsObject(retVal)
        /\ IsObject(argConfig) =>
              /\ \A k \in AccountKeys :
                    /\ k \in DOMAIN retVal.m <=> k \in DOMAIN argConfig.m
                    /\ k \in DOMAIN argConfig.m =>
                          retVal.m[k] = argConfig.m[k]
              /\ DOMAIN retVal.m \subseteq AccountKeys
        /\ ~IsObject(argConfig) => DOMAIN retVal.m = {}

\* an extraction from a document with an account key and a portable key
C8_Witness ==
    /\ Extracted /\ IsObject(argConfig)
    /\ \E k \in AccountKeys : k \in DOMAIN argConfig.m /\ k \in DOMAIN retVal.m
    /\ \E k \in PortableKeys : k \in DOMAIN argConfig.m /\ k \notin DOMAIN retVal.m

---------------------------------------------------------------------------
(* Claims about the calls on the filesystem, checked under Spec.           *)

Last    == log[Len(log)]
Did(op) == Len(log) > 0 /\ Last.op = op

\* the live config read as switch_to_profile's caller means it: a JSON
\* object, an absent file counting as the empty object
LiveIsObject(fs) ==
    ConfigExists(fs) =>
        from_str(ReadConfig(fs)).ok /\ IsObject(from_str(ReadConfig(fs)).val)
LiveObject(fs) ==
    IF ConfigExists(fs) THEN from_str(ReadConfig(fs)).val ELSE Obj(EmptyMap)

\* the stored profile of a name, when it is a JSON object
ProfileIsObject(fs, name) ==
    /\ profile_exists(fs, name)
    /\ from_str(fs.dir[get_profile_path(name)]).ok
    /\ IsObject(from_str(fs.dir[get_profile_path(name)]).val)
ProfileDoc(fs, name) == from_str(fs.dir[get_profile_path(name)]).val

\* L with the account-specific keys as P has them, stated key by key
SwitchedDoc(L, P) ==
    Obj([k \in ((DOMAIN L.m) \ AccountKeys) \cup ((DOMAIN P.m) \cap AccountKeys)
            |-> IF k \in AccountKeys THEN P.m[k] ELSE L.m[k]])

SwitchedOk ==
    /\ Did("switch_to_profile") /\ Last.ok
    /\ LiveIsObject(pre) /\ ProfileIsObject(pre, Last.name)

\* C1: after a successful switch_to_profile to a stored profile P, from a
\* live config L that is a JSON object (absent counts as {}), the live
\* config is a regular file that spells L with every account-specific key
\* set as in P or removed where P lacks it, every other key of L unchanged.
C1_SwitchPatchesLiveConfig ==
    SwitchedOk =>
        /\ claudeJson.kind = "file"
        /\ from_str(claudeJson.content).ok
        /\ from_str(claudeJson.content).val
              = SwitchedDoc(LiveObject(pre), ProfileDoc(pre, Last.name))

\* C1 where ~/.claude.json was not a symlink before the switch (the state
\* every command would start in if the migration ran first)
C1_SwitchPatchesRegularConfig ==
    (SwitchedOk /\ ~ConfigIsSymlink(pre)) => C1_SwitchPatchesLiveConfig

\* a switch from a live config with an account key the profile lacks, an
\* account key the profile sets otherwise, and a portable key
C1_Witness ==
    /\ SwitchedOk /\ pre.cfg.kind = "file"
    /\ \E k \in AccountKeys :
          /\ k \in DOMAIN LiveObject(pre).m
          /\ k \notin DOMAIN ProfileDoc(pre, Last.name).m
    /\ \E k \in AccountKeys :
          /\ k \in DOMAIN LiveObject(pre).m
          /\ k \in DOMAIN ProfileDoc(pre, Last.name).m
          /\ LiveObject(pre).m[k] # ProfileDoc(pre, Last.name).m[k]
    /\ \E k \in PortableKeys : k \in DOMAIN LiveObject(pre).m

\* three successful switches A, B, A from the initial filesystem, whose
\* live config and profiles A and B are JSON objects
SwitchedABA(n) ==
    /\ Len(log) = n
    /\ \A i \in 1..n : log[i].op = "switch_to_profile" /\ log[i].ok
    /\ LiveIsObject(fs0)
    /\ \A i \in 1..n : ProfileIsObject(fs0, log[i].name)
    /\ n = 3 => log[1].name = log[3].name

\* C4: switch(A); switch(B); switch(A) leaves the live config as switch(A)
\* alone leaves it, and after switch(B) no account-specific key that B
\* lacks is present in the live config.
C4_SwitchAwayAndBack ==
    /\ SwitchedABA(3) =>
          /\ ConfigExists(CurFS)
          /\ LiveObject(CurFS)
                = LiveObject(switch_to_profile(fs0, log[1].name).fs)
    /\ SwitchedABA(2) =>
          \A k \in AccountKeys \ DOMAIN ProfileDoc(fs0, log[2].name).m :
              k \notin DOMAIN LiveObject(CurFS).m

\* C4 where ~/.claude.json was not a symlink before the first switch
C4_SwitchAwayAndBackRegular ==
    ~ConfigIsSymlink(fs0) => C4_SwitchAwayAndBack

\* C5: switch_to_profile, returning or panicking, leaves every file of the
\* profile directory with the content it had.
C5_SwitchLeavesProfiles ==
    Did("switch_to_profile") => dirExists = pre.dirExists /\ dir = pre.dir

\* C5 where ~/.claude.json was not a symlink before the switch
C5_SwitchLeavesProfilesRegular ==
    ~ConfigIsSymlink(pre) => C5_SwitchLeavesProfiles

\* C6: after a successful save_profile(name) the profile file of the name
\* spells extract_account_fields of the live config as it was at save time:
\* the same account-specific keys and values, no portable key.
C6_SaveRoundTrip ==
    (Did("save_profile") /\ Last.ok) =>
        LET path == get_profile_path(Last.name)
            live == from_str(ReadConfig(pre)).val
        IN  /\ FileExists(CurFS, path)
            /\ from_str(dir[path]).ok
            /\ from_str(dir[path]).val = extract_account_fields(live)
            /\ DOMAIN from_str(dir[path]).val.m \subseteq AccountKeys
            /\ IsObject(live) =>
                  DOMAIN from_str(dir[path]).val.m
                      = (DOMAIN live.m) \cap AccountKeys

\* a save of a live config that holds account and portable keys
C6_Witness ==
    /\ Did("save_profile") /\ Last.ok
    /\ IsObject(from_str(ReadConfig(pre)).val)
    /\ (DOMAIN from_str(ReadConfig(pre)).val.m) \cap PortableKeys # {}
    /\ (DOMAIN from_str(dir[get_profile_path(Last.name)]).val.m) # {}

\* C7: save_profile, returning or panicking, leaves the live config as it
\* was: the same content, still there, still a regular file and no link.
C7_SaveLeavesLiveConfig ==
    Did("save_profile") =>
        /\ claudeJson = pre.cfg
        /\ ConfigExists(pre) =>
              /\ ConfigExists(CurFS)
              /\ ReadConfig(CurFS) = ReadConfig(pre)

\* C7 where ~/.claude.json was not a symlink before the save
C7_SaveLeavesRegularConfig ==
    ~ConfigIsSymlink(pre) => C7_SaveLeavesLiveConfig

\* the profile files of a directory
ProfileFiles(fs) == {f \in DOMAIN fs.dir : f.ext = ProfileExt}

Migrated == Did("migrate_if_needed") /\ Last.ok /\ ConfigIsSymlink(pre)

\* C9: after one complete run of migrate_if_needed from a symlinked live
\* config, the live config is a regular file with the text the link led to,
\* every profile file spells extract_account_fields of what it spelled, and
\* every profile has a .bak sibling with its former text verbatim.
C9_MigrationResult ==
    Migrated =>
        /\ claudeJson = Regular(ReadConfig(pre))
        /\ \A f \in ProfileFiles(pre) :
              /\ f \in DOMAIN dir
              /\ from_str(dir[f]).ok
              /\ from_str(dir[f]).val
                    = extract_account_fields(from_str(pre.dir[f]).val)
              /\ WithExtensionJsonBak(f) \in DOMAIN dir
              /\ dir[WithExtensionJsonBak(f)] = pre.dir[f]

\* a complete migration of two legacy profiles that hold portable keys
C9_Witness ==
    /\ Migrated
    /\ Cardinality(ProfileFiles(pre)) = 2
    /\ \A f \in ProfileFiles(pre) :
          (DOMAIN from_str(pre.dir[f]).val.m) \cap PortableKeys # {}

\* C10: when the live config path is no symlink, migrate_if_needed changes
\* nothing: no file is created, changed or removed, no .bak is written and
\* no notice is printed.
C10_MigrationNoOp ==
    (Did("migrate_if_needed") /\ ~ConfigIsSymlink(pre)) =>
        /\ CurFS = pre
        /\ Last.ok
        /\ ~Last.notice

\* a second run right after a complete first run, with .bak files in place
C10_Witness ==
    /\ Len(log) = 2
    /\ log[1].op = "migrate_if_needed" /\ log[1].ok /\ log[1].notice
    /\ log[2].op = "migrate_if_needed"
    /\ \E f \in DOMAIN dir : f.ext = BackupExt

---------------------------------------------------------------------------
(* Claims about get_current_profile and the error paths, under Spec.       *)

\* the identity of the live config, stated on the document
LiveHasUuid(fs) ==
    /\ ConfigExists(fs)
    /\ from_str(ReadConfig(fs)).ok
    /\ IsObject(from_str(ReadConfig(fs)).val)
    /\ "oauthAccount" \in DOMAIN from_str(ReadConfig(fs)).val.m
    /\ from_str(ReadConfig(fs)).val.m["oauthAccount"].t = "account"
LiveUuid(fs) == from_str(ReadConfig(fs)).val.m["oauthAccount"].v

\* a directory entry that is a profile with the live config's accountUuid
FileHasUuid(fs, f) ==
    /\ f \in DOMAIN fs.dir
    /\ f.ext = ProfileExt
    /\ fs.dir[f].fmt # "invalid"
    /\ IsObject(fs.dir[f].doc)
    /\ "oauthAccount" \in DOMAIN fs.dir[f].doc.m
    /\ fs.dir[f].doc.m["oauthAccount"].t = "account"
FileUuid(fs, f) == fs.dir[f].doc.m["oauthAccount"].v
Matches(fs, f) ==
    LiveHasUuid(fs) /\ FileHasUuid(fs, f) /\ FileUuid(fs, f) = LiveUuid(fs)

\* C14: get_current_profile returns the first profile, in listing order,
\* whose oauthAccount.accountUuid equals the live config's, and none when
\* the live config is absent, unparsable or without that value, or when no
\* stored profile has an equal value.
C14_CurrentIsFirstMatch ==
    Did("get_current_profile") =>
        LET order == Last.entries
            ret   == Last.ret
        IN  /\ Last.ok
            /\ CurFS = pre
            /\ ret.some <=> \E i \in 1..Len(order) : Matches(pre, order[i])
            /\ ret.some =>
                  \E i \in 1..Len(order) :
                      /\ order[i].stem = ret.name
                      /\ Matches(pre, order[i])
                      /\ \A j \in 1..(i - 1) : ~Matches(pre, order[j])

\* a call that passed over a profile of another account listed first
C14_Witness ==
    /\ Did("get_current_profile") /\ Last.ret.some
    /\ Len(Last.entries) >= 2
    /\ FileHasUuid(pre, Last.entries[1])
    /\ ~Matches(pre, Last.entries[1])

\* a switch that returned, then a call of get_current_profile
SwitchedThenCurrent ==
    /\ Len(log) >= 2
    /\ Last.op = "get_current_profile"
    /\ log[Len(log) - 1].op = "switch_to_profile" /\ log[Len(log) - 1].ok
    /\ FileHasUuid(pre, get_profile_path(log[Len(log) - 1].name))
SwitchedName == log[Len(log) - 1].name

\* C15: after a successful switch_to_profile(name) to a stored profile
\* that carries an accountUuid, get_current_profile returns slugify(name).
C15_CurrentAfterSwitch ==
    SwitchedThenCurrent =>
        Last.ret.some /\ Last.ret.name = slugify(SwitchedName)

\* C15 as amended: when the live config is a JSON object after the switch,
\* get_current_profile returns a stored profile with the accountUuid of
\* the profile switched to, and it is slugify(name) when no other stored
\* profile carries that accountUuid.
C15_CurrentAfterSwitchAmended ==
    (SwitchedThenCurrent /\ LiveIsObject(pre) /\ ConfigExists(pre)) =>
        LET target == get_profile_path(SwitchedName) IN
        /\ Last.ret.some
        /\ \E f \in ProfileFiles(pre) :
              /\ f.stem = Last.ret.name
              /\ FileHasUuid(pre, f)
              /\ FileUuid(pre, f) = FileUuid(pre, target)
        /\ (\A f \in ProfileFiles(pre) \ {target} :
               FileHasUuid(pre, f) => FileUuid(pre, f) # FileUuid(pre, target))
              => Last.ret.name = slugify(SwitchedName)

\* a switch between two stored profiles of different accounts, then the
\* call that names the profile switched to
C15_Witness ==
    /\ SwitchedThenCurrent /\ LiveIsObject(pre) /\ ConfigExists(pre)
    /\ Last.ret.some /\ Last.ret.name = slugify(SwitchedName)
    /\ \E f \in ProfileFiles(pre) :
          FileHasUuid(pre, f)
          /\ FileUuid(pre, f) # FileUuid(pre, get_profile_path(SwitchedName))

\* C16: after any sequence of save, delete and switch calls at most one
\* stored profile has the live config's accountUuid.
C16_MatchIsUnique ==
    \A f, g \in ProfileFiles(CurFS) :
        (Matches(CurFS, f) /\ Matches(CurFS, g)) => f = g

\* C16 from a live config that is no symlink, as long as no save is made
C16_MatchIsUniqueWithoutSave ==
    (~ConfigIsSymlink(fs0)
     /\ \A i \in 1..Len(log) : log[i].op # "save_profile")
        => C16_MatchIsUnique

\* C18: when the live config exists but is not valid JSON, switch_to_profile
\* panics and does not overwrite the live config.
C18_SwitchFailsOnMalformedConfig ==
    (Did("switch_to_profile")
     /\ profile_exists(pre, Last.name)
     /\ ConfigExists(pre) /\ ~from_str(ReadConfig(pre)).ok)
        => ~Last.ok /\ CurFS = pre

\* C19: switch_to_profile(name) without a profile file of the name panics
\* with "Profile not found", naming slugify(name), and changes nothing: no
\* live config is created.
C19_SwitchNotFound ==
    (Did("switch_to_profile") /\ ~profile_exists(pre, Last.name)) =>
        /\ ~Last.ok
        /\ Last.msg = "Profile not found"
        /\ Last.slug = slugify(Last.name)
        /\ CurFS = pre

\* a switch to a missing profile whose name is not its slug, with no
\* live config in place
C19_Witness ==
    /\ Did("switch_to_profile") /\ ~profile_exists(pre, Last.name)
    /\ Last.name # slugify(Last.name)
    /\ ~ConfigExists(pre)

\* C20: save_profile(name) without a live config panics with the missing
\* config message and creates no profile file and no profile directory.
C20_SaveWithoutConfig ==
    (Did("save_profile") /\ ~ConfigExists(pre)) =>
        /\ ~Last.ok
        /\ Last.msg = "Failed to read Claude config"
        /\ CurFS = pre

\* a save without a live config and without ~/.claudectx/
C20_Witness ==
    /\ Did("save_profile") /\ ~ConfigExists(pre)
    /\ ~pre.dirExists /\ ~dirExists

---------------------------------------------------------------------------
(* Claims about the commands and the login workflow, under SpecCmd.        *)

Commands == {"list", "save", "delete", "launch", "login"}
Ran(op)  == Len(log) > 0 /\ Last.op = op

\* the content of the live config, when it has one
SameLiveConfig(fs, gs) ==
    /\ ConfigExists(fs) <=> ConfigExists(gs)
    /\ ConfigExists(fs) => ReadConfig(fs) = ReadConfig(gs)

\* C11: migration fires at the start of every invocation, before any other
\* operation: no command (list, save, delete, login, launch) reads or
\* writes the live config or the profile directory while the live config
\* is a symlink, so a command that starts on a symlinked live config
\* prints the migration notice and leaves no symlink.
C11_MigrationBeforeCommand ==
    (Len(log) > 0 /\ Last.op \in Commands /\ ConfigIsSymlink(pre)
     /\ ConfigExists(pre))
        => Last.notice /\ ~ConfigIsSymlink(CurFS)

\* C12: on every path of the login workflow that does not save the new
\* profile (launch failure, unsuccessful exit, no config created, account
\* unreadable, name prompt failure, overwrite declined) the live config
\* ends with its pre-workflow content, or absent if it was absent.
C12_LoginRestoresOnFailure ==
    (Ran("login") /\ ~LoginSaved(Last)) => SameLiveConfig(CurFS, pre)

\* C12 for the paths that call restore_claude_config: unsuccessful exit,
\* no config created, overwrite declined
LoginHandledFailure ==
    /\ Ran("login")
    /\ Last.msg \in {"Login process exited with status",
                     "Login did not create a config file",
                     "Cancelled. Cleaning up..."}
C12_LoginRestoresOnHandledFailure ==
    LoginHandledFailure => SameLiveConfig(CurFS, pre)

\* C13: on the successful path of the login workflow, after the restore,
\* the new profile file holds extract_account_fields of the config the
\* login created, the live config has its pre-workflow content (or is
\* absent if there was none), and the .bak file no longer exists.
LoginProfileSaved ==
    LET path == get_profile_path(Last.name) IN
    /\ FileExists(CurFS, path)
    /\ from_str(dir[path]).ok
    /\ from_str(Last.ret.config).ok
    /\ from_str(dir[path]).val
         = extract_account_fields(from_str(Last.ret.config).val)
C13_LoginSuccess ==
    (Ran("login") /\ LoginSaved(Last)) =>
        /\ LoginProfileSaved
        /\ SameLiveConfig(CurFS, pre)
        /\ ~claudeBak.exists

\* C13 for a workflow that starts without a .bak file left by an earlier one
C13_LoginSuccessWithoutStaleBackup ==
    (Ran("login") /\ LoginSaved(Last) /\ ~pre.bak.exists) =>
        /\ LoginProfileSaved
        /\ SameLiveConfig(CurFS, pre)
        /\ ~claudeBak.exists

\* a profile file that is listed and does not parse
Malformed(fs, f) ==
    f \in DOMAIN fs.dir /\ f.ext = ProfileExt /\ ~from_str(fs.dir[f]).ok
\* a profile file that list prints without a panic
Printable(fs, f) ==
    /\ f \in DOMAIN fs.dir /\ f.ext = ProfileExt
    /\ from_str(fs.dir[f]).ok
    /\ get_oauth_account(from_str(fs.dir[f]).val) = ""

---------------------------------------------------------------------------
(* Claims about slugify, under SpecSlug.                                   *)

\* C25: slugify is idempotent: slugify(slugify(x)) = slugify(x) for every
\* input string x.
C25_SlugifyIdempotent ==
    called = "slugify_twice" => argProfile = retVal

\* a name that slugify changed, slugified twice
C25_Witness ==
    /\ called = "slugify_twice"
    /\ retVal # argConfig
    /\ retVal # <<>>

\* the slug built in one pass over the name: a letter or digit is kept in
\* lowercase, and one separator goes before it when other characters
\* stand between it and the letter or digit kept before
RECURSIVE ScanLoop(_, _, _, _)
ScanLoop(name, i, acc, gap) ==
    IF i > Len(name) THEN acc
    ELSE IF name[i] \in LowerChars \cup DigitChars
      THEN ScanLoop(name, i + 1,
                    (IF gap /\ acc # <<>> THEN Append(acc, "-") ELSE acc)
                      \o <<name[i]>>, FALSE)
    ELSE IF name[i] \in UpperChars
      THEN ScanLoop(name, i + 1,
                    (IF gap /\ acc # <<>> THEN Append(acc, "-") ELSE acc)
                      \o <<to_ascii_lowercase(name[i])>>, FALSE)
    ELSE ScanLoop(name, i + 1, acc, TRUE)

---------------------------------------------------------------------------
(* Claims about the frame of the profile store operations.                 *)

\* C22: delete_profile(name) removes exactly the file at
\* get_profile_path(name) and leaves every other profile file and the live
\* config (still there, with the same content) unchanged; when the file is
\* absent it panics and nothing changes.
C22_DeleteFrame ==
    Did("delete_profile") =>
        LET path == get_profile_path(Last.name) IN
        IF FileExists(pre, path)
          THEN /\ Last.ok
               /\ DOMAIN dir = (DOMAIN pre.dir) \ {path}
               /\ \A f \in DOMAIN dir : dir[f] = pre.dir[f]
               /\ dirExists = pre.dirExists
               /\ claudeBak = pre.bak
               /\ claudeJson = pre.cfg
               /\ SameLiveConfig(CurFS, pre)
          ELSE /\ ~Last.ok
               /\ Last.msg = "Failed to delete profile"
               /\ CurFS = pre

\* C22 where ~/.claude.json is not a symlink
C22_DeleteFrameRegular ==
    ~ConfigIsSymlink(pre) => C22_DeleteFrame

\* the keys of a document outside ACCOUNT_SPECIFIC_FIELDS, with their values
Portable(doc) == [k \in (DOMAIN doc.m) \ AccountKeys |-> doc.m[k]]

StartedWithObject ==
    /\ ConfigExists(fs0)
    /\ from_str(ReadConfig(fs0)).ok
    /\ IsObject(from_str(ReadConfig(fs0)).val)

\* C27: from a live config that is a JSON object, after any sequence of
\* save, switch, delete, get_current_profile and migration calls the live
\* config still is a JSON object with the same keys outside
\* ACCOUNT_SPECIFIC_FIELDS and the same values under them.
C27_PortableSettingsKept ==
    StartedWithObject =>
        /\ ConfigExists(CurFS)
        /\ from_str(ReadConfig(CurFS)).ok
        /\ IsObject(from_str(ReadConfig(CurFS)).val)
        /\ Portable(from_str(ReadConfig(CurFS)).val)
             = Portable(from_str(ReadConfig(fs0)).val)

\* C27 from a live config that is a regular file
C27_PortableSettingsKeptRegular ==
    ~ConfigIsSymlink(fs0) => C27_PortableSettingsKept

---------------------------------------------------------------------------
(* Claims about the profile store, under SpecStore.                        *)

\* the names stored after the first i calls of the log: the profiles of
\* the initial directory, plus the slugs saved, minus the slugs deleted
RECURSIVE StoredAfter(_)
StoredAfter(i) ==
    IF i = 0 THEN {f.stem : f \in ProfileFiles(fs0)}
    ELSE LET c == log[i] IN
         IF c.op = "save_profile" /\ c.ok
           THEN StoredAfter(i - 1) \cup {slugify(c.name)}
         ELSE IF c.op = "delete_profile" /\ c.ok
           THEN StoredAfter(i - 1) \ {slugify(c.name)}
         ELSE StoredAfter(i - 1)

SeqToSet(q) == {q[i] : i \in 1..Len(q)}

\* C23: list_profiles returns exactly the names of the entries with the
\* profile suffix that are no backups, each once: after any sequence of
\* saves, deletes and migrations the set of slugs saved and not deleted
\* since; no .bak entry is listed, also after migration; without
\* ~/.claudectx/ or with an empty one the result is empty and no error.
C23_ListIsStoredSet ==
    Did("list_profiles") =>
        LET names == Last.ret.names IN
        /\ Last.ok
        /\ SeqToSet(names) = {f.stem : f \in ProfileFiles(pre)}
        /\ Len(names) = Cardinality(ProfileFiles(pre))
        /\ SeqToSet(names) = StoredAfter(Len(log) - 1)
        /\ (~pre.dirExists \/ DOMAIN pre.dir = {}) => names = <<>>

\* a list after a migration that left .bak files, and a list after a save
\* or delete that changed the stored set
C23_Witness ==
    /\ Did("list_profiles")
    /\ Len(log) = 2
    /\ \/ /\ log[1].op = "migrate_if_needed" /\ log[1].notice
          /\ \E f \in DOMAIN pre.dir : f.ext = BackupExt
          /\ Last.ret.names # <<>>
       \/ /\ log[1].op \in {"save_profile", "delete_profile"} /\ log[1].ok
          /\ StoredAfter(1) # StoredAfter(0)

ReadOnlyOps ==
    {"list_profiles", "get_profile_path", "profile_exists",
     "get_current_profile"}

\* C24: list_profiles, get_profile_path, profile_exists and
\* get_current_profile return without a panic and leave the live config,
\* its backup, the profile directory and every file in it unchanged; a
\* store call that changes the filesystem is a save, a delete or a
\* migration.
C24_ReadOnlyOperations ==
    Len(log) > 0 =>
        /\ Last.op \in ReadOnlyOps => Last.ok /\ CurFS = pre
        /\ CurFS # pre =>
              Last.op \in {"save_profile", "delete_profile",
                           "migrate_if_needed"}

\* a get_current_profile without ~/.claudectx/, and one that scanned
\* two profiles
C24_Witness ==
    /\ Did("get_current_profile")
    /\ \/ ~pre.dirExists /\ ConfigExists(pre)
       \/ Last.ret.some /\ Cardinality(ProfileFiles(pre)) = 2

\* the scan of get_current_profile reads a profile that is not valid JSON:
\* it is listed before any profile with the live accountUuid
ScanMeetsMalformed ==
    /\ Did("get_current_profile")
    /\ LiveHasUuid(pre)
    /\ \E i \in 1..Len(Last.entries) :
          /\ Malformed(pre, Last.entries[i])
          /\ \A j \in 1..(i - 1) : ~Matches(pre, Last.entries[j])

\* C30: when the scan of get_current_profile meets a profile file that is
\* not valid JSON, get_current_profile fails with a fatal parse error.
C30_CurrentFailsOnMalformedProfile ==
    ScanMeetsMalformed => ~Last.ok

\* C30 as amended: when the scan of get_current_profile meets a profile
\* file that is not valid JSON, it passes over it and goes on with the
\* next: it returns the first later profile with the live accountUuid, or
\* none, and never fails.
C30_CurrentSkipsMalformedProfile ==
    ScanMeetsMalformed =>
        /\ Last.ok
        /\ CurFS = pre
        /\ Last.ret.some <=>
              \E i \in 1..Len(Last.entries) : Matches(pre, Last.entries[i])
        /\ Last.ret.some =>
              \E i \in 1..Len(Last.entries) :
                  /\ Last.entries[i].stem = Last.ret.name
                  /\ Matches(pre, Last.entries[i])
                  /\ \E j \in 1..(i - 1) : Malformed(pre, Last.entries[j])

\* a scan that passed over a malformed profile and returned the next one
C30_Witness ==
    /\ ScanMeetsMalformed
    /\ Last.ret.some
    /\ Malformed(pre, Last.entries[1])

---------------------------------------------------------------------------
(* Claims about the overwrite prompt, under SpecCmd.                       *)

\* C21: in the save command and in the login workflow a profile that
\* exists is overwritten only after the user confirms: when the profile
\* of the slug exists and the answer is not yes (declined, or the prompt
\* failed or was not reached), the profile file keeps its content.
C21_OverwriteNeedsConfirmation ==
    ((Ran("save") \/ Ran("login"))
     /\ profile_exists(pre, Last.name)
     /\ Last.ret.answer # "yes")
        => /\ profile_exists(CurFS, Last.name)
           /\ dir[get_profile_path(Last.name)]
                = pre.dir[get_profile_path(Last.name)]

\* a save declined where the save would have changed the profile, then a
\* login workflow declined at its overwrite prompt
C21_Witness ==
    /\ Len(log) = 2
    /\ log[1].op = "save" /\ log[1].msg = "Cancelled."
    /\ save_profile(fs0, log[1].name).ok
    /\ save_profile(fs0, log[1].name).fs # fs0
    /\ log[2].op = "login" /\ log[2].msg = "Cancelled. Cleaning up..."
    /\ profile_exists(pre, log[2].name)

---------------------------------------------------------------------------
(* Claims about the steps of migration, under SpecMig.                     *)

\* a run of migrate_if_needed that found the symlink is under way or over
MigrationStarted == ConfigIsSymlink(fs0) /\ (mig.runs > 0)

\* the content of the profile f before migration is in f or in its .bak
OriginalHeld(f) ==
    \/ f \in DOMAIN dir /\ dir[f] = fs0.dir[f]
    \/ /\ WithExtensionJsonBak(f) \in DOMAIN dir
       /\ dir[WithExtensionJsonBak(f)] = fs0.dir[f]

\* C28: in every state of a migration run, a state in which the run ends
\* early included, the original content of each legacy profile is still
\* held verbatim by the profile file or by its .bak sibling, and a profile
\* file is rewritten only when its .bak holds the original.
C28_BackupBeforeOverwrite ==
    \A f \in ProfileFiles(fs0) :
        /\ f \in DOMAIN dir
        /\ OriginalHeld(f)
        /\ dir[f] # fs0.dir[f] =>
              /\ WithExtensionJsonBak(f) \in DOMAIN dir
              /\ dir[WithExtensionJsonBak(f)] = fs0.dir[f]

\* a run stopped between the slimming of one profile and the copy of the
\* next: one profile rewritten, one still in its legacy form
C28_Witness ==
    /\ MigrationStarted
    /\ pc = "idle" /\ mig.aborted
    /\ \E f \in ProfileFiles(fs0) : dir[f] # fs0.dir[f]
    /\ \E f \in ProfileFiles(fs0) :
          dir[f] = fs0.dir[f] /\ WithExtensionJsonBak(f) \notin DOMAIN dir

\* C29: migration rewrites the live config as a regular file before it
\* slims any profile, and does not resume: when a run ends after that
\* rewrite and before all profiles are slimmed, the live config holds the
\* full original content, the profiles not yet slimmed keep their legacy
\* content, and later invocations do not slim them, the live config being
\* no symlink any more.
C29_MigrationDoesNotResume ==
    /\ (\E f \in ProfileFiles(fs0) : f \in DOMAIN dir /\ dir[f] # fs0.dir[f])
          => /\ ConfigIsSymlink(fs0)
             /\ claudeJson = Regular(ReadConfig(fs0))
    /\ mig.aborted =>
          /\ claudeJson = Regular(ReadConfig(fs0))
          /\ \A f \in mig.left : f \in DOMAIN dir /\ dir[f] = fs0.dir[f]
          /\ pc = "idle"

\* a run that ended with a profile unslimmed, and a later invocation that
\* returned
C29_Witness ==
    /\ mig.aborted /\ mig.left # {}
    /\ mig.later > 0
    /\ pc = "idle"
    /\ \E f \in mig.left : from_str(dir[f]).ok

\* a run that is not cut short leaves what migrate_if_needed leaves
MigrationStepsAgree ==
    (pc = "mig_done" /\ ConfigIsSymlink(pre)) =>
        /\ migrate_if_needed(pre, mig.entries).ok
        /\ migrate_if_needed(pre, mig.entries).fs = CurFS

---------------------------------------------------------------------------
(* Claims about patch_account_fields applied twice, and to documents that  *)
(* are not objects, checked under SpecPure.                                *)

PatchedTwice == called = "patch_account_fields_twice"

\* C36: patch_account_fields is idempotent: for all JSON objects liveConfig
\* and profile, the config left by applying the patch twice with the same
\* profile equals the config left by applying it once.
C36_PatchIdempotent ==
    (PatchedTwice /\ IsObject(argConfig) /\ IsObject(argProfile)) =>
        retAgain = retVal

\* a first patch that overwrote one account key and removed another, and a
\* second one that left its result as it was
C36_Witness ==
    /\ PatchedTwice /\ IsObject(argConfig) /\ IsObject(argProfile)
    /\ \E k \in AccountKeys :
          /\ k \in DOMAIN argConfig.m /\ k \in DOMAIN argProfile.m
          /\ argConfig.m[k] # argProfile.m[k]
          /\ retVal.m[k] = argProfile.m[k]
    /\ \E k \in AccountKeys :
          /\ k \in DOMAIN argConfig.m /\ k \notin DOMAIN argProfile.m
          /\ k \notin DOMAIN retVal.m
    /\ retAgain = retVal

\* C37: patch_account_fields is a no-op when either argument is not a JSON
\* object: liveConfig is left exactly as it was (the function returns
\* nothing and has no failing path).
C37_PatchNoOpOnNonObject ==
    (Patched /\ ~(IsObject(argConfig) /\ IsObject(argProfile))) =>
        retVal = argConfig

\* a config holding account keys, patched with a profile that is no object
C37_Witness ==
    /\ Patched
    /\ IsObject(argConfig) /\ ~IsObject(argProfile)
    /\ \E k \in AccountKeys : k \in DOMAIN argConfig.m
    /\ retVal = argConfig

\* an array patched with a profile that holds account keys
C37_WitnessArray ==
    /\ Patched
    /\ argConfig = JArray /\ IsObject(argProfile)
    /\ \E k \in AccountKeys : k \in DOMAIN argProfile.m
    /\ retVal = JArray

---------------------------------------------------------------------------
(* Claims about a save followed by a switch, and about a switch between    *)
(* documents that are not objects, checked under Spec.                     *)

\* the live config exists and parses; the document it spells
LiveParses(fs) == ConfigExists(fs) /\ from_str(ReadConfig(fs)).ok
LiveDoc(fs)    == from_str(ReadConfig(fs)).val

\* the step is a call of switch_to_profile(name) that directly follows a
\* successful save_profile(name), which found the live config a JSON object
SwitchAfterSave ==
    /\ Did("save_profile") /\ Last.ok
    /\ LiveParses(pre) /\ IsObject(LiveDoc(pre))
    /\ Len(log') = Len(log) + 1
    /\ log'[Len(log')].op = "switch_to_profile"
    /\ log'[Len(log')].name = Last.name

\* the switch returned and the live config spells the document L it
\* spelled before the save
BackToSavedConfig ==
    /\ log'[Len(log')].ok
    /\ LiveParses(CurFS')
    /\ LiveDoc(CurFS') = LiveDoc(pre)

\* C33: saving then switching to the same name is the identity on the live
\* config: for every live config L that is a JSON object, save_profile(name)
\* followed by switch_to_profile(name) leaves the live config equal to L as
\* a JSON document.
C33_SaveThenSwitchIdentity ==
    [][SwitchAfterSave => BackToSavedConfig]_vars

\* C33 where ~/.claude.json was not a symlink before the save
C33_SaveThenSwitchIdentityRegular ==
    [][(SwitchAfterSave /\ ~ConfigIsSymlink(pre)) => BackToSavedConfig]_vars

\* a successful switch whose profile file or live config parsed as JSON
\* that is not an object
SwitchedNonObject ==
    /\ Did("switch_to_profile")
    /\ LiveParses(pre)
    /\ profile_exists(pre, Last.name)
    /\ from_str(pre.dir[get_profile_path(Last.name)]).ok
    /\ ~(IsObject(LiveDoc(pre)) /\ IsObject(ProfileDoc(pre, Last.name)))

\* C34: when the profile file or the existing live config parses as valid
\* JSON that is not an object, switch_to_profile completes without an error
\* but applies nothing: the live config is written back (pretty-printed)
\* with the JSON value it had, and, where the profile or the live config
\* holds an account-specific key at all, the live config is not what a
\* patch with the requested profile gives.
C34_SwitchNonObjectAppliesNothing ==
    SwitchedNonObject =>
        /\ Last.ok
        /\ ConfigExists(CurFS)
        /\ ReadConfig(CurFS) = to_string_pretty(LiveDoc(pre))
        /\ LET L == LiveDoc(pre)
               P == ProfileDoc(pre, Last.name)
           IN  (((DOMAIN L.m) \cup (DOMAIN P.m)) \cap AccountKeys # {}) =>
                   LiveDoc(CurFS) # SwitchedDoc(L, P)

\* a live config that is an array, written by another program, switched to
\* a profile that holds account keys
C34_Witness ==
    /\ SwitchedNonObject /\ Last.ok
    /\ pre.cfg = Regular(Compact(JArray))
    /\ IsObject(ProfileDoc(pre, Last.name))
    /\ "oauthAccount" \in DOMAIN ProfileDoc(pre, Last.name).m
    /\ claudeJson = Regular(to_string_pretty(JArray))

\* a live config with account and portable keys switched to a profile
\* that is an array
C34_WitnessArrayProfile ==
    /\ SwitchedNonObject /\ Last.ok
    /\ ProfileDoc(pre, Last.name) = JArray
    /\ IsObject(LiveDoc(pre))
    /\ "oauthAccount" \in DOMAIN LiveDoc(pre).m
    /\ LiveDoc(CurFS) = LiveDoc(pre)

---------------------------------------------------------------------------
(* Claims about profiles saved without an account, checked under SpecCmd.  *)

\* a document with a well-formed oauthAccount
HasAccount(doc) ==
    /\ IsObject(doc)
    /\ "oauthAccount" \in DOMAIN doc.m
    /\ doc.m["oauthAccount"].t = "account"

\* a profile file that parses and holds no well-formed oauthAccount
Accountless(fs, f) ==
    /\ f \in DOMAIN fs.dir /\ f.ext = ProfileExt
    /\ from_str(fs.dir[f]).ok
    /\ ~HasAccount(from_str(fs.dir[f]).val)

\* the save command went on to save_profile, from a live config that
\* parses and holds no well-formed oauthAccount
SavedWithoutAccount ==
    /\ Ran("save") /\ Last.ret.answer \in {"", "yes"}
    /\ LiveParses(pre) /\ ~HasAccount(LiveDoc(pre))

---------------------------------------------------------------------------
(* Claims about what the profile directory holds, checked under SpecSlim.  *)

\* the file spells a JSON object whose keys are all account-specific
SlimFile(fs, f) ==
    /\ f \in DOMAIN fs.dir
    /\ from_str(fs.dir[f]).ok
    /\ IsObject(from_str(fs.dir[f]).val)
    /\ DOMAIN from_str(fs.dir[f]).val.m \subseteq AccountKeys

\* a run of migrate_if_needed that found the symlink and returned
MigrationRan == Did("migrate_if_needed") /\ Last.ok /\ Last.notice

\* C32: starting from an empty profile directory, after any sequence of
\* save, delete, switch and login every file of ~/.claudectx/ is a JSON
\* object whose keys all belong to ACCOUNT_SPECIFIC_FIELDS; and after a
\* complete run of the migration the same holds for every file ending in
\* .claude.json that existed before it.
C32_SlimProfiles ==
    /\ fs0.dir = EmptyFiles => \A f \in DOMAIN dir : SlimFile(CurFS, f)
    /\ MigrationRan => \A f \in ProfileFiles(pre) : SlimFile(CurFS, f)

\* from an empty directory: a login that saved one profile, then a save of
\* another from a live config that holds a portable key
C32_Witness ==
    /\ fs0.dir = EmptyFiles
    /\ Len(log) = 2
    /\ log[1].op = "login" /\ log[1].ok /\ log[1].msg = "Saved profile"
    /\ Did("save_profile") /\ Last.ok
    /\ LiveParses(pre) /\ IsObject(LiveDoc(pre))
    /\ \E k \in PortableKeys : k \in DOMAIN LiveDoc(pre).m
    /\ Cardinality(DOMAIN dir) = 2
    /\ \A f \in DOMAIN dir : SlimFile(CurFS, f)

\* a migration that slimmed a profile holding a portable key
C32_WitnessMigration ==
    /\ MigrationRan
    /\ \E f \in ProfileFiles(pre) :
          /\ from_str(pre.dir[f]).ok
          /\ \E k \in PortableKeys : k \in DOMAIN from_str(pre.dir[f]).val.m
          /\ SlimFile(CurFS, f)

---------------------------------------------------------------------------
(* Claims about switches that run side by side, checked under SpecRace.    *)

\* every invocation has ended, and the ones that wrote, in the order of
\* their writes
RaceOver ==
    /\ switches # <<>>
    /\ \A p \in DOMAIN switches : switches[p].at \in {"done", "failed"}
Writers == {i \in 1..Len(log) : log[i].ok}
LastWriter == log[CHOOSE i \in Writers : \A j \in Writers : j <= i]

\* the profiles asked for are JSON objects where they parse at all
ProfilesAreObjects ==
    \A p \in DOMAIN switches :
        LET f == get_profile_path(switches[p].name) IN
        (FileExists(fs0, f) /\ from_str(fs0.dir[f]).ok) =>
            IsObject(from_str(fs0.dir[f]).val)

\* the account-specific keys of document d are those of profile document P
AccountKeysFrom(d, P) ==
    \A k \in AccountKeys :
        IF k \in DOMAIN P.m THEN k \in DOMAIN d.m /\ d.m[k] = P.m[k]
                            ELSE k \notin DOMAIN d.m

LastWriterWins ==
    LET alone == switch_to_profile(fs0, LastWriter.name) IN
    /\ alone.ok
    /\ ConfigExists(CurFS)
    /\ ReadConfig(CurFS) = ReadConfig(alone.fs)
    /\ IsObject(LiveDoc(CurFS)) =>
          \E i \in Writers :
              AccountKeysFrom(LiveDoc(CurFS), ProfileDoc(fs0, log[i].name))
    /\ (LiveParses(fs0) /\ IsObject(LiveDoc(fs0))) =>
          \A k \in (DOMAIN LiveDoc(fs0).m) \ AccountKeys :
              /\ k \in DOMAIN LiveDoc(CurFS).m
              /\ LiveDoc(CurFS).m[k] = LiveDoc(fs0).m[k]

\* C31: two concurrent switch_to_profile invocations for profiles A and B
\* (JSON objects), their steps read profile, read live config, write live
\* config interleaved in any order, end in a last-writer-wins state: the
\* final live config equals what the last writer's switch alone produces
\* from the initial filesystem, its account-specific keys all come from one
\* single profile, and the portable keys of the initial live config are
\* preserved.
C31_LastWriterWins ==
    (RaceOver /\ Writers # {} /\ ProfilesAreObjects) => LastWriterWins

\* C31 where ~/.claude.json is not a symlink
C31_LastWriterWinsRegular ==
    (RaceOver /\ Writers # {} /\ ProfilesAreObjects /\ ~ConfigIsSymlink(fs0))
        => LastWriterWins

\* two switches to different accounts that both read the live config
\* before either wrote it: the write of the first is lost
C31_WitnessRegular ==
    /\ RaceOver /\ ~ConfigIsSymlink(fs0)
    /\ Cardinality(Writers) = 2
    /\ log[1].name # log[2].name
    /\ ProfileDoc(fs0, log[1].name) # ProfileDoc(fs0, log[2].name)
    /\ LiveParses(fs0) /\ IsObject(LiveDoc(fs0))
    /\ \A p \in DOMAIN switches : switches[p].config = LiveDoc(fs0)
    /\ LastWriterWins

=============================================================================
